---------------------------- MODULE Spec2Model ----------------------------
(***************************************************************************)
(* Model of the timetracker desktop agent: the IdleDetector state machine  *)
(* (src/app/IdleDetector.cpp) and the activity-log upload cycle of         *)
(* ApiService (src/app/ApiService.cpp) over the local log file that the    *)
(* producers of TimeTrackerMainWindow.cpp append to.                       *)
(*                                                                         *)
(* Time is counted in clock ticks, TicksPerSec ticks to the second, so     *)
(* that QDateTime::secsTo truncates as it does on millisecond timestamps.  *)
(***************************************************************************)
EXTENDS Integers, Sequences, FiniteSets, TLC

(***************************************************************************)
(* Bounds of the model.                                                    *)
(***************************************************************************)
TicksPerSec == 2
MaxTime == 6
MaxEvents == 3
MaxRecords == 2
MaxRequests == 3
MaxDepth == 2
MaxWindowSeconds == 420
MaxOverlapSeconds == 720
MaxSubmissions == 2
MaxSamples == 3
MaxShotCalls == 4
MaxLogLines == 2
MaxHookCalls == 2
MaxLockCalls == 2

(***************************************************************************)
(* Program constants and inputs.                                           *)
(***************************************************************************)
DefaultThreshold == 300
ThresholdInputs == {-1, 0, 1, 2}

\* The two calling contexts of the detector: the event loop that owns the
\* timers, and the input-hook callback context.
Threads == {"ui", "hook"}

\* A default-constructed (null) QDateTime.
NullTime == -1

\* Stamps of the lines the producers write; stamp 0 is a line left in the file
\* by something else.
RecordIds == 0..MaxRecords

\* activity_log.txt outlives the process: it starts empty, or with a line of
\* fewer than three segments.
InitialStores == {<<>>, <<<<0, "garbage">>>>}

VARIABLES
    now,                    \* wall clock, in ticks
    m_lastActivityTime,
    m_idleStartTime,
    m_isCurrentlyIdle,
    m_idleThresholdSeconds,
    timerActive,            \* m_checkTimer->isActive()
    pc,                     \* per thread: where it is inside a detector call
    events,                 \* signals delivered to observers, in delivery order
    intervalCount,          \* history: idle intervals opened so far
    openInterval,           \* history: the interval opened by the last check that entered idle
    openThreshold,          \* history: the threshold that check compared against
    m_mutex,                \* IdleDetector::m_mutex: "free" or the thread that holds it
    stack,                  \* per thread: the calls suspended in an emission, innermost last
    quiet,                  \* history: no activity, stop or threshold change since the last start()
    store,                  \* activity_log.txt: its lines, each split at " - "
    fileOpenable,           \* whether activity_log.txt can be opened just now
    nextId,                 \* history: the stamp of the next line a producer writes
    inflight,               \* requests posted whose reply has not been handled
    requestCount,           \* network requests posted so far
    posted,                 \* history: per record, the number of batches posted with it
    delivered,              \* history: records of batches confirmed uploaded
    appended,               \* history: well-formed records written to the file
    signals,                \* activityLogsUploaded(bool) emissions, in order
    failedBatch,            \* history: records of the batch whose failure was handled
                            \* since the last upload cycle
    normal,                 \* history: no upload has failed, the file always opened
    win_idleStartTime,      \* TimeTrackerMainWindow::m_idleStartTime
    handled,                \* number of delivered events whose window handler has run
    dialogs,                \* the IdleAnnotationDialog objects created, in order
    idleTimeCalls,          \* the calls of ApiService::uploadIdleTime, in order
    m_lastWindowTitle,      \* TimeTrackerMainWindow::m_lastWindowTitle
    m_lastProcessName,      \* TimeTrackerMainWindow::m_lastProcessName
    prevSample,             \* history: the pair of the previous sample, <<>> before the first
    disk,                   \* the screenshot files that exist
    readable,               \* the screenshot files that can be opened for reading
    shotInflight,           \* screenshot requests posted whose reply has not been handled
    shotRequests,           \* history: per path, the number of requests posted
    shotConfirmed,          \* history: the paths of requests that finished without error
    screenshotUploaded,     \* screenshotUploaded(bool, path) emissions, in order
    logText,                \* activity_log.txt as text: its lines, character by character
    written,                \* history: the records appended to logText, in order
    s_instance,             \* TimeTrackerMainWindow::s_instance: 0 is nullptr
    agents,                 \* per window instance: its life, its hooks, its running
                            \* timers, its detector's idle state and the number of
                            \* updateLastActivityTime() calls its detector received
    m_uploadMutex,          \* ApiService::m_uploadMutex: "free" or the thread holding it
    m_screenshotMutex,      \* TimeTrackerMainWindow::m_screenshotMutex, likewise
    inCall,                 \* per thread: the mutex-guarded slot it is inside, if any
    lockCalls,              \* history: calls of mutex-guarded slots begun so far
    lastOp                  \* history: the call made last and what it found

detVars == <<now, m_lastActivityTime, m_idleStartTime, m_isCurrentlyIdle,
             m_idleThresholdSeconds, timerActive, pc, events, intervalCount,
             openInterval, openThreshold, m_mutex, stack, quiet>>

upVars == <<store, fileOpenable, nextId, inflight, requestCount, posted,
            delivered, appended, signals, failedBatch, normal>>

winVars == <<win_idleStartTime, handled, dialogs, idleTimeCalls>>

trackVars == <<m_lastWindowTitle, m_lastProcessName, prevSample>>

shotVars == <<disk, readable, shotInflight, shotRequests, shotConfirmed,
              screenshotUploaded>>

textVars == <<logText, written>>

agentVars == <<s_instance, agents>>

lockVars == <<m_uploadMutex, m_screenshotMutex, inCall, lockCalls>>

auxVars == <<trackVars, shotVars, textVars, agentVars, lockVars>>

vars == <<detVars, upVars, winVars, auxVars, lastOp>>

Ready == [at |-> "ready"]

NotQuiet == [on |-> FALSE, from |-> 0]

(***************************************************************************)
(* QDateTime arithmetic.                                                   *)
(***************************************************************************)
\* C++ integer division truncates toward zero.
TruncDiv(a, b) == IF a >= 0 THEN a \div b ELSE -((-a) \div b)

\* QDateTime::secsTo: 0 when either side is invalid, else whole seconds.
SecsTo(from, to) ==
    IF from = NullTime \/ to = NullTime THEN 0
    ELSE TruncDiv(to - from, TicksPerSec)

\* QDateTime::addSecs
AddSecs(t, s) == t + s * TicksPerSec

(***************************************************************************)
(* IdleDetector                                                            *)
(***************************************************************************)
\* IdleDetector::getIdleDurationSeconds(): 0 when not idle, else
\* m_idleStartTime.secsTo(now).
GetIdleDurationSeconds_SinceActivity(isIdle, idleStartTime, lastActivityTime, t) ==
    IF ~isIdle THEN 0 ELSE SecsTo(t, lastActivityTime)

GetIdleDurationSeconds(isIdle, idleStartTime, lastActivityTime, t) ==
    IF ~isIdle THEN 0 ELSE SecsTo(idleStartTime, t)

\* checkIdleState(): m_idleStartTime = m_lastActivityTime.addSecs(m_idleThresholdSeconds)
IdleStartTime_AtCheck(lastActivityTime, threshold, t) == t

IdleStartTime(lastActivityTime, threshold, t) == AddSecs(lastActivityTime, threshold)

\* The test of checkIdleState() for entering the idle state.
ShouldEnterIdle_Early(isIdle, secondsSinceLastActivity, threshold) ==
    ~isIdle /\ secondsSinceLastActivity + 1 >= threshold

ShouldEnterIdle_NoIdleGuard(isIdle, secondsSinceLastActivity, threshold) ==
    secondsSinceLastActivity >= threshold

ShouldEnterIdle(isIdle, secondsSinceLastActivity, threshold) ==
    ~isIdle /\ secondsSinceLastActivity >= threshold

\* The duration reported by idleEnded: m_idleStartTime.secsTo(now).
TotalIdleDuration_FromLastActivity(idleStartTime, lastActivityTime, t) ==
    SecsTo(lastActivityTime, t)

TotalIdleDuration(idleStartTime, lastActivityTime, t) == SecsTo(idleStartTime, t)

\* The test of setIdleThresholdSeconds() on its argument.
IsValidThreshold_AcceptsZero(seconds) == seconds >= 0

IsValidThreshold_Never(seconds) == FALSE

IsValidThreshold(seconds) == seconds > 0

\* The test of start() on the poll timer.
ShouldStartTimer_Always(isActive) == TRUE

ShouldStartTimer(isActive) == ~isActive

\* locker.unlock() before an emission: the mutex after it, given its holder.
UnlockBeforeEmit_StillLocked(holder) == holder

UnlockBeforeEmit(holder) == "free"

\* Room in the bounded observer log for one more emission.
CanEmit ==
    Len(events) + Cardinality({t \in Threads : pc[t].at \in {"emitStarted", "emitEnded"}})
        < MaxEvents

AllReady == \A t \in Threads : pc[t] = Ready

\* Screenshot files: screenshot_<timestamp>.jpg, one name per capture.
Paths == {"screenshot_1.jpg", "screenshot_2.jpg"}

\* The window instances a process may create.
Instances == {1, 2}

\* s_instance before any window is constructed, and after any is destroyed.
NullInstance == 0

\* A window instance that has not been constructed.
NoAgent ==
    [life |-> "none", hooks |-> FALSE, timers |-> {}, idle |-> FALSE, activity |-> 0]

\* Before the first sample, screenshot, log line and window.
InitAux ==
    /\ m_lastWindowTitle = ""
    /\ m_lastProcessName = ""
    /\ prevSample = <<>>
    /\ disk = {}
    /\ readable = {}
    /\ shotInflight = {}
    /\ shotRequests = [p \in Paths |-> 0]
    /\ shotConfirmed = {}
    /\ screenshotUploaded = <<>>
    /\ logText = <<>>
    /\ written = <<>>
    /\ s_instance = NullInstance
    /\ agents = [i \in Instances |-> NoAgent]
    /\ m_uploadMutex = "free"
    /\ m_screenshotMutex = "free"
    /\ inCall = [t \in Threads |-> "none"]
    /\ lockCalls = 0

Init ==
    /\ now = 0
    /\ m_lastActivityTime = 0
    /\ m_idleStartTime = NullTime
    /\ m_isCurrentlyIdle = FALSE
    /\ m_idleThresholdSeconds = DefaultThreshold
    /\ timerActive = FALSE
    /\ pc = [t \in Threads |-> Ready]
    /\ events = <<>>
    /\ intervalCount = 0
    /\ openInterval = 0
    /\ openThreshold = 0
    /\ m_mutex = "free"
    /\ stack = [t \in Threads |-> <<>>]
    /\ quiet = NotQuiet
    /\ store \in InitialStores
    /\ fileOpenable = TRUE
    /\ nextId = 1
    /\ inflight = {}
    /\ requestCount = 0
    /\ posted = [id \in RecordIds |-> 0]
    /\ delivered = {}
    /\ appended = {}
    /\ signals = <<>>
    /\ failedBatch = {}
    /\ normal = TRUE
    /\ win_idleStartTime = NullTime
    /\ handled = 0
    /\ dialogs = <<>>
    /\ idleTimeCalls = <<>>
    /\ InitAux
    /\ lastOp = [op |-> "init"]

\* The wall clock advances.
Tick ==
    /\ now < MaxTime
    /\ now' = now + 1
    /\ lastOp' = [op |-> "tick"]
    /\ UNCHANGED <<m_lastActivityTime, m_idleStartTime, m_isCurrentlyIdle,
                   m_idleThresholdSeconds, timerActive, pc, events,
                   intervalCount, openInterval, openThreshold, m_mutex, quiet>>
    /\ UNCHANGED <<stack, upVars, winVars>>
    /\ UNCHANGED auxVars

\* IdleDetector::start()
Start ==
    /\ pc["ui"] = Ready
    /\ m_mutex = "free"
    /\ m_mutex' = "free"
    /\ IF ShouldStartTimer(timerActive)
       THEN /\ m_lastActivityTime' = now
            /\ m_isCurrentlyIdle' = FALSE
            /\ timerActive' = TRUE
            /\ quiet' = [on |-> TRUE, from |-> Len(events)]
       ELSE UNCHANGED <<m_lastActivityTime, m_isCurrentlyIdle, timerActive, quiet>>
    /\ lastOp' = [op |-> "start", wasRunning |-> timerActive]
    /\ UNCHANGED <<now, m_idleStartTime, m_idleThresholdSeconds, pc, events,
                   intervalCount, openInterval, openThreshold>>
    /\ UNCHANGED <<stack, upVars, winVars>>
    /\ UNCHANGED auxVars

\* IdleDetector::stop(), up to the unlock before the emission (or the return).
Stop ==
    /\ pc["ui"] = Ready
    /\ m_mutex = "free"
    /\ m_mutex' = IF timerActive /\ m_isCurrentlyIdle THEN UnlockBeforeEmit("ui") ELSE "free"
    /\ (timerActive /\ m_isCurrentlyIdle) => CanEmit
    /\ lastOp' = [op |-> "stop", wasRunning |-> timerActive, wasIdle |-> m_isCurrentlyIdle,
                  duration |-> SecsTo(m_idleStartTime, now), nEvents |-> Len(events)]
    /\ quiet' = NotQuiet
    /\ IF timerActive
       THEN /\ timerActive' = FALSE
            /\ IF m_isCurrentlyIdle
               THEN /\ m_isCurrentlyIdle' = FALSE
                    /\ pc' = [pc EXCEPT !["ui"] =
                                [at |-> "emitEnded",
                                 arg |-> TotalIdleDuration(m_idleStartTime,
                                                           m_lastActivityTime, now),
                                 interval |-> openInterval, relock |-> TRUE]]
               ELSE UNCHANGED <<m_isCurrentlyIdle, pc>>
       ELSE UNCHANGED <<timerActive, m_isCurrentlyIdle, pc>>
    /\ UNCHANGED <<now, m_lastActivityTime, m_idleStartTime, m_idleThresholdSeconds,
                   events, intervalCount, openInterval, openThreshold>>
    /\ UNCHANGED <<stack, upVars, winVars>>
    /\ UNCHANGED auxVars

\* IdleDetector::setIdleThresholdSeconds(seconds)
SetIdleThresholdSeconds(t, seconds) ==
    /\ pc[t] = Ready
    /\ m_mutex = "free"
    /\ m_mutex' = "free"
    /\ IF IsValidThreshold(seconds)
       THEN /\ m_idleThresholdSeconds' = seconds
            /\ quiet' = NotQuiet
       ELSE UNCHANGED <<m_idleThresholdSeconds, quiet>>
    /\ lastOp' = [op |-> "setIdleThresholdSeconds", seconds |-> seconds]
    /\ UNCHANGED <<now, m_lastActivityTime, m_idleStartTime, m_isCurrentlyIdle,
                   timerActive, pc, events, intervalCount, openInterval, openThreshold>>
    /\ UNCHANGED <<stack, upVars, winVars>>
    /\ UNCHANGED auxVars

\* IdleDetector::updateLastActivityTime(), the section under the mutex.
UpdateLastActivityTime(t) ==
    /\ pc[t] = Ready
    /\ m_mutex = "free"
    /\ m_mutex' = IF m_isCurrentlyIdle THEN UnlockBeforeEmit(t) ELSE "free"
    /\ m_isCurrentlyIdle => CanEmit
    /\ IF m_isCurrentlyIdle
       THEN /\ m_isCurrentlyIdle' = FALSE
            /\ pc' = [pc EXCEPT ![t] =
                        [at |-> "emitEnded",
                         arg |-> TotalIdleDuration(m_idleStartTime, m_lastActivityTime, now),
                         interval |-> openInterval, relock |-> FALSE]]
       ELSE UNCHANGED <<m_isCurrentlyIdle, pc>>
    /\ m_lastActivityTime' = now
    /\ quiet' = NotQuiet
    /\ lastOp' = [op |-> "updateLastActivityTime", wasIdle |-> m_isCurrentlyIdle,
                  at |-> now, lastActivityTime |-> m_lastActivityTime,
                  idleStartTime |-> m_idleStartTime, nEvents |-> Len(events)]
    /\ UNCHANGED <<now, m_idleStartTime, m_idleThresholdSeconds, timerActive,
                   events, intervalCount, openInterval, openThreshold>>
    /\ UNCHANGED <<stack, upVars, winVars>>
    /\ UNCHANGED auxVars

\* IdleDetector::checkIdleState(), the section under the mutex.
CheckIdleState(caller) ==
    /\ pc["ui"] = Ready
    /\ m_mutex = "free"
    /\ m_mutex' = IF ShouldEnterIdle(m_isCurrentlyIdle, SecsTo(m_lastActivityTime, now),
                                     m_idleThresholdSeconds)
                  THEN UnlockBeforeEmit("ui") ELSE "free"
    /\ ShouldEnterIdle(m_isCurrentlyIdle, SecsTo(m_lastActivityTime, now),
                       m_idleThresholdSeconds) => CanEmit
    /\ lastOp' = [op |-> "checkIdleState", caller |-> caller, wasIdle |-> m_isCurrentlyIdle,
                  elapsed |-> SecsTo(m_lastActivityTime, now),
                  threshold |-> m_idleThresholdSeconds, nEvents |-> Len(events)]
    /\ IF ShouldEnterIdle(m_isCurrentlyIdle, SecsTo(m_lastActivityTime, now),
                          m_idleThresholdSeconds)
       THEN /\ m_isCurrentlyIdle' = TRUE
            /\ m_idleStartTime' = IdleStartTime(m_lastActivityTime,
                                                m_idleThresholdSeconds, now)
            /\ intervalCount' = intervalCount + 1
            /\ openInterval' = intervalCount + 1
            /\ openThreshold' = m_idleThresholdSeconds
            /\ pc' = [pc EXCEPT !["ui"] =
                        [at |-> "emitStarted", threshold |-> m_idleThresholdSeconds,
                         interval |-> intervalCount + 1]]
       ELSE UNCHANGED <<m_isCurrentlyIdle, m_idleStartTime, intervalCount,
                        openInterval, openThreshold, pc>>
    /\ UNCHANGED <<now, m_lastActivityTime, m_idleThresholdSeconds, timerActive,
                   events, quiet>>
    /\ UNCHANGED <<stack, upVars, winVars>>
    /\ UNCHANGED auxVars

\* The QTimer timeout connected to checkIdleState().
TimerPoll == timerActive /\ CheckIdleState("timer")

\* IdleDetector::triggerIdleCheck()
TriggerIdleCheck == CheckIdleState("trigger")

\* emit idleStarted(m_idleThresholdSeconds), after the unlock. The member is read
\* without the mutex: the value is the one the check used or the one stored now.
EmitIdleStarted(t) ==
    /\ pc[t].at = "emitStarted"
    /\ \E arg \in {pc[t].threshold, m_idleThresholdSeconds} :
          events' = Append(events, [type |-> "idleStarted", arg |-> arg,
                                    interval |-> pc[t].interval])
    /\ pc' = [pc EXCEPT ![t] = Ready]
    /\ UNCHANGED <<now, m_lastActivityTime, m_idleStartTime, m_isCurrentlyIdle,
                   m_idleThresholdSeconds, timerActive, intervalCount, openInterval,
                   openThreshold, m_mutex, quiet, lastOp>>
    /\ UNCHANGED <<stack, upVars, winVars>>
    /\ UNCHANGED auxVars

\* emit idleEnded(totalIdleDuration), after the unlock.
EmitIdleEnded(t) ==
    /\ pc[t].at = "emitEnded"
    /\ events' = Append(events, [type |-> "idleEnded", arg |-> pc[t].arg,
                                 interval |-> pc[t].interval])
    /\ pc' = [pc EXCEPT ![t] = IF pc[t].relock THEN [at |-> "stopRelock"] ELSE Ready]
    /\ UNCHANGED <<now, m_lastActivityTime, m_idleStartTime, m_isCurrentlyIdle,
                   m_idleThresholdSeconds, timerActive, intervalCount, openInterval,
                   openThreshold, m_mutex, quiet, lastOp>>
    /\ UNCHANGED <<stack, upVars, winVars>>
    /\ UNCHANGED auxVars

\* stop(): locker.relock() after the emission, then the return.
StopRelock ==
    /\ pc["ui"].at = "stopRelock"
    /\ m_mutex = "free"
    /\ m_mutex' = "free"
    /\ pc' = [pc EXCEPT !["ui"] = Ready]
    /\ UNCHANGED <<now, m_lastActivityTime, m_idleStartTime, m_isCurrentlyIdle,
                   m_idleThresholdSeconds, timerActive, events, intervalCount,
                   openInterval, openThreshold, quiet, lastOp>>
    /\ UNCHANGED <<stack, upVars, winVars>>
    /\ UNCHANGED auxVars

\* A detector call begins.
DetectorCall ==
    \/ Start
    \/ Stop
    \/ \E t \in Threads, s \in ThresholdInputs : SetIdleThresholdSeconds(t, s)
    \/ \E t \in Threads : UpdateLastActivityTime(t)
    \/ TimerPoll
    \/ TriggerIdleCheck

\* A detector call that has released the mutex goes on.
DetectorStep ==
    \/ \E t \in Threads : EmitIdleStarted(t)
    \/ \E t \in Threads : EmitIdleEnded(t)
    \/ StopRelock

\* The calling contexts run concurrently.
Next ==
    \/ Tick
    \/ DetectorCall
    \/ DetectorStep

Spec == Init /\ [][Next]_vars

\* The calls are made one after the other: each returns before the next begins.
StartSeq == AllReady /\ Start

StopSeq == AllReady /\ Stop

SetIdleThresholdSecondsSeq ==
    AllReady /\ \E t \in Threads, s \in ThresholdInputs : SetIdleThresholdSeconds(t, s)

UpdateLastActivityTimeSeq == AllReady /\ \E t \in Threads : UpdateLastActivityTime(t)

TimerPollSeq == AllReady /\ TimerPoll

TriggerIdleCheckSeq == AllReady /\ TriggerIdleCheck

NextSeq ==
    \/ Tick
    \/ StartSeq
    \/ StopSeq
    \/ SetIdleThresholdSecondsSeq
    \/ UpdateLastActivityTimeSeq
    \/ TimerPollSeq
    \/ TriggerIdleCheckSeq
    \/ DetectorStep

SpecSeq == Init /\ [][NextSeq]_vars

(***************************************************************************)
(* Observers that call back into the detector. An emission runs the        *)
(* connected handler in the emitting thread before the emitting call goes  *)
(* on; the handler may make detector calls of its own.                     *)
(***************************************************************************)
\* emit idleStarted(...) enters a handler; the emitting call is suspended.
EmitIdleStartedToHandler(t) ==
    /\ pc[t].at = "emitStarted"
    /\ Len(stack[t]) < MaxDepth
    /\ \E arg \in {pc[t].threshold, m_idleThresholdSeconds} :
          events' = Append(events, [type |-> "idleStarted", arg |-> arg,
                                    interval |-> pc[t].interval])
    /\ stack' = [stack EXCEPT ![t] = Append(@, Ready)]
    /\ pc' = [pc EXCEPT ![t] = Ready]
    /\ UNCHANGED <<now, m_lastActivityTime, m_idleStartTime, m_isCurrentlyIdle,
                   m_idleThresholdSeconds, timerActive, intervalCount, openInterval,
                   openThreshold, m_mutex, quiet, lastOp>>
    /\ UNCHANGED <<upVars, winVars>>
    /\ UNCHANGED auxVars

\* emit idleEnded(...) enters a handler; the emitting call is suspended.
EmitIdleEndedToHandler(t) ==
    /\ pc[t].at = "emitEnded"
    /\ Len(stack[t]) < MaxDepth
    /\ events' = Append(events, [type |-> "idleEnded", arg |-> pc[t].arg,
                                 interval |-> pc[t].interval])
    /\ stack' = [stack EXCEPT ![t] =
                    Append(@, IF pc[t].relock THEN [at |-> "stopRelock"] ELSE Ready)]
    /\ pc' = [pc EXCEPT ![t] = Ready]
    /\ UNCHANGED <<now, m_lastActivityTime, m_idleStartTime, m_isCurrentlyIdle,
                   m_idleThresholdSeconds, timerActive, intervalCount, openInterval,
                   openThreshold, m_mutex, quiet, lastOp>>
    /\ UNCHANGED <<upVars, winVars>>
    /\ UNCHANGED auxVars

\* The handler returns; the suspended call goes on after its emit statement.
HandlerReturn(t) ==
    /\ pc[t] = Ready
    /\ stack[t] # <<>>
    /\ pc' = [pc EXCEPT ![t] = stack[t][Len(stack[t])]]
    /\ stack' = [stack EXCEPT ![t] = SubSeq(@, 1, Len(@) - 1)]
    /\ UNCHANGED <<now, m_lastActivityTime, m_idleStartTime, m_isCurrentlyIdle,
                   m_idleThresholdSeconds, timerActive, events, intervalCount,
                   openInterval, openThreshold, m_mutex, quiet, lastOp>>
    /\ UNCHANGED <<upVars, winVars>>
    /\ UNCHANGED auxVars

\* The timer fires from the event loop, not inside a handler.
TimerPollFromEventLoop == stack["ui"] = <<>> /\ TimerPoll

NextReentrant ==
    \/ Tick
    \/ Start
    \/ Stop
    \/ \E t \in Threads, s \in ThresholdInputs : SetIdleThresholdSeconds(t, s)
    \/ \E t \in Threads : UpdateLastActivityTime(t)
    \/ TimerPollFromEventLoop
    \/ TriggerIdleCheck
    \/ DetectorStep
    \/ \E t \in Threads : EmitIdleStartedToHandler(t)
    \/ \E t \in Threads : EmitIdleEndedToHandler(t)
    \/ \E t \in Threads : HandlerReturn(t)

SpecReentrant == Init /\ [][NextReentrant]_vars

(***************************************************************************)
(* The local log file and the ApiService upload cycle                      *)
(***************************************************************************)
\* QList::mid(pos)
Mid(parts, pos) == SubSeq(parts, pos + 1, Len(parts))

\* The test of readActivityLogs() for a line being a log entry.
IsLogEntry_TwoSegments(parts) == Len(parts) >= 2

IsLogEntry(parts) == Len(parts) >= 3

\* One parsed line as the QJsonObject of readActivityLogs().
LogEntry(parts) ==
    [timestamp |-> parts[1], eventType |-> parts[2], details |-> Mid(parts, 2),
     userId |-> "current_user@company.com", sessionId |-> "1"]

RECURSIVE ParseLines(_)
ParseLines(lines) ==
    IF lines = <<>> THEN <<>>
    ELSE LET line == Head(lines)
             rest == ParseLines(Tail(lines))
         IN  IF line = <<>> THEN rest
             ELSE IF IsLogEntry(line) THEN <<LogEntry(line)>> \o rest
             ELSE rest

\* ApiService::readActivityLogs()
ReadActivityLogs(file, openable) ==
    IF ~openable THEN <<>> ELSE ParseLines(file)

\* ApiService::clearUploadedLogs(uploadedLogs)
ClearUploadedLogs(file, uploadedLogs, openable) ==
    IF openable THEN <<>> ELSE file

\* uploadActivityLogs(): whether the batch read is posted.
ShouldPost_Always(activityLogs) == TRUE

ShouldPost(activityLogs) == activityLogs # <<>>

\* The records (by stamp) of a batch, and of the lines of a file.
BatchIds(batch) == {batch[i].timestamp : i \in 1..Len(batch)}
LineIds(file) == {file[i][1] : i \in {k \in 1..Len(file) : file[k] # <<>>}}

\* std::ofstream(..., std::ios::app) << line: a failed open drops the line.
AppendLine_Dropped(file, line, openable) == file

AppendLine(file, line, openable) ==
    IF openable THEN Append(file, line) ELSE file

\* The input hooks append a key or mouse event.
LogInputEvent ==
    /\ nextId <= MaxRecords
    /\ \E eventType \in {"KEY_DOWN", "MOUSE_MOVE"} :
          store' = AppendLine(store, <<nextId, eventType, "data">>, fileOpenable)
    /\ appended' = IF fileOpenable THEN appended \cup {nextId} ELSE appended
    /\ nextId' = nextId + 1
    /\ lastOp' = [op |-> "append", id |-> nextId]
    /\ UNCHANGED <<fileOpenable, inflight, requestCount, posted, delivered, signals,
                   failedBatch, normal>>
    /\ UNCHANGED <<detVars, winVars>>
    /\ UNCHANGED auxVars

\* trackActiveApplication() appends a change of the foreground window.
LogActiveApp ==
    /\ nextId <= MaxRecords
    /\ store' = AppendLine(store, <<nextId, "ACTIVE_APP", "PROCESS: p", "TITLE: t">>,
                           fileOpenable)
    /\ appended' = IF fileOpenable THEN appended \cup {nextId} ELSE appended
    /\ nextId' = nextId + 1
    /\ lastOp' = [op |-> "append", id |-> nextId]
    /\ UNCHANGED <<fileOpenable, inflight, requestCount, posted, delivered, signals,
                   failedBatch, normal>>
    /\ UNCHANGED <<detVars, winVars>>
    /\ UNCHANGED auxVars

\* The file becomes unopenable (held by another process) or openable again.
FileAvailability ==
    /\ fileOpenable' = ~fileOpenable
    /\ normal' = FALSE
    /\ lastOp' = [op |-> "fileAvailability"]
    /\ UNCHANGED <<store, nextId, inflight, requestCount, posted, delivered, appended,
                   signals, failedBatch>>
    /\ UNCHANGED <<detVars, winVars>>
    /\ UNCHANGED auxVars

\* QMutexLocker's destructor at the return of the slot: the mutex after it.
ReleaseOnReturn_Kept(holder) == holder

ReleaseOnReturn(holder) == "free"

\* The body of ApiService::uploadActivityLogs(), after the locker is taken.
UploadActivityLogsBody ==
    /\ requestCount < MaxRequests
    /\ LET activityLogs == ReadActivityLogs(store, fileOpenable)
       IN  /\ IF ShouldPost(activityLogs)
              THEN /\ requestCount' = requestCount + 1
                   /\ inflight' = inflight \cup
                          {[rid |-> requestCount + 1, activityLogs |-> activityLogs]}
                   /\ posted' = [id \in RecordIds |->
                                    IF id \in BatchIds(activityLogs)
                                    THEN posted[id] + 1 ELSE posted[id]]
              ELSE UNCHANGED <<requestCount, inflight, posted>>
           /\ lastOp' = [op |-> "uploadActivityLogs", activityLogs |-> activityLogs,
                         readable |-> fileOpenable, nRequests |-> requestCount,
                         afterFailure |-> failedBatch]
    /\ failedBatch' = {}
    /\ UNCHANGED <<store, fileOpenable, nextId, delivered, appended, signals, normal>>

\* ApiService::uploadActivityLogs(), fired by m_uploadTimer or called directly:
\* the whole call, from the locker to the return.
UploadActivityLogs ==
    /\ m_uploadMutex = "free"
    /\ UploadActivityLogsBody
    /\ UNCHANGED <<detVars, winVars>>
    /\ UNCHANGED auxVars

\* ApiService::handleActivityResponse() for the reply of one posted request.
HandleActivityResponse(req, noError) ==
    /\ req \in inflight
    /\ inflight' = inflight \ {req}
    /\ IF noError
       THEN /\ store' = ClearUploadedLogs(store, req.activityLogs, fileOpenable)
            /\ delivered' = delivered \cup BatchIds(req.activityLogs)
            /\ signals' = Append(signals, TRUE)
            /\ UNCHANGED <<failedBatch, normal>>
       ELSE /\ signals' = Append(signals, FALSE)
            /\ failedBatch' = BatchIds(req.activityLogs)
            /\ normal' = FALSE
            /\ UNCHANGED <<store, delivered>>
    /\ lastOp' = [op |-> "handleActivityResponse", rid |-> req.rid, noError |-> noError,
                  activityLogs |-> req.activityLogs, storeBefore |-> store]
    /\ UNCHANGED <<fileOpenable, nextId, requestCount, posted, appended>>
    /\ UNCHANGED <<detVars, winVars>>
    /\ UNCHANGED auxVars

ReplySucceeds == \E req \in inflight : HandleActivityResponse(req, TRUE)

ReplyFails == \E req \in inflight : HandleActivityResponse(req, FALSE)

NextUpload ==
    \/ LogInputEvent
    \/ LogActiveApp
    \/ FileAvailability
    \/ UploadActivityLogs
    \/ ReplySucceeds
    \/ ReplyFails

SpecUpload == Init /\ [][NextUpload]_vars

(***************************************************************************)
(* TimeTrackerMainWindow and IdleAnnotationDialog: the annotation of idle  *)
(* intervals. The window owns a detector with a 300-second threshold; its  *)
(* handlers run inside the emissions, in the event-loop thread.            *)
(***************************************************************************)
AnnotationMinSeconds == 60

\* The threshold configureIdleDetection() sets.
WindowIdleThreshold == 5 * 60

\* Seconds that pass between two things the window sees.
WindowTimeSteps == {59, 60, 300}

\* Entries of the reason combo box, the first one empty.
ReasonItems == {"", "Meeting"}

\* Texts offered to QComboBox::setCurrentText, one of them not an entry.
ReasonInputs == ReasonItems \cup {"Gym"}

NoteInputs == {"", "on a call"}

\* The test of onIdleEnded() for showing the dialog.
ShouldAnnotate_Above(idleDurationSeconds) == idleDurationSeconds > AnnotationMinSeconds

ShouldAnnotate(idleDurationSeconds) == idleDurationSeconds >= AnnotationMinSeconds

\* IdleAnnotationDialog::isValid(), given the current text of the combo box.
IsValid_Always(reason) == TRUE

IsValid(reason) == reason # ""

\* QComboBox::setCurrentText on a combo box that is not editable: the entry
\* with that text is selected, a text that is no entry changes nothing.
SetCurrentText(items, current, text) == IF text \in items THEN text ELSE current

\* IdleAnnotationDialog::IdleAnnotationDialog(startTime, endTime, parent); the
\* last four fields are history: the interval closed by the idleEnded that
\* created the dialog, as the detector had it.
NewDialog(startTime, endTime, interval, idleStartTime, reported) ==
    [m_startTime |-> startTime, m_endTime |-> endTime,
     m_durationSeconds |-> SecsTo(startTime, endTime),
     reason |-> "", note |-> "", result |-> "open", emitted |-> <<>>,
     interval |-> interval, idleStartTime |-> idleStartTime, resumedAt |-> endTime,
     reported |-> reported]

\* The IdleAnnotationData onIdleAnnotationSubmitted() fills in.
AnnotationData(reason, note, startTime, endTime) ==
    [reason |-> reason, note |-> note, startTime |-> startTime, endTime |-> endTime,
     durationSeconds |-> SecsTo(startTime, endTime)]

\* The line onIdleAnnotationSubmitted() writes.
AnnotatedLine(id, data) ==
    <<id, "IDLE_ANNOTATED", <<"DURATION", data.durationSeconds>>,
      <<"REASON", data.reason>>, <<"NOTE", data.note>>>>

\* ApiService::uploadIdleTime(data): one request, answered later.
UploadIdleTime(calls, data, d, lineId, logged) ==
    Append(calls, [data |-> data, dialog |-> d, outcome |-> "pending",
                   lineId |-> lineId, logged |-> logged])

\* Every delivered event has had its handler run.
Dispatched == handled = Len(events)

\* The state after TimeTrackerMainWindow's constructor: configureIdleDetection()
\* has set the threshold and started the detector.
InitWindow ==
    /\ now = 0
    /\ m_lastActivityTime = 0
    /\ m_idleStartTime = NullTime
    /\ m_isCurrentlyIdle = FALSE
    /\ m_idleThresholdSeconds = WindowIdleThreshold
    /\ timerActive = TRUE
    /\ pc = [t \in Threads |-> Ready]
    /\ events = <<>>
    /\ intervalCount = 0
    /\ openInterval = 0
    /\ openThreshold = 0
    /\ m_mutex = "free"
    /\ stack = [t \in Threads |-> <<>>]
    /\ quiet = [on |-> TRUE, from |-> 0]
    /\ store \in InitialStores
    /\ fileOpenable = TRUE
    /\ nextId = 1
    /\ inflight = {}
    /\ requestCount = 0
    /\ posted = [id \in RecordIds |-> 0]
    /\ delivered = {}
    /\ appended = {}
    /\ signals = <<>>
    /\ failedBatch = {}
    /\ normal = TRUE
    /\ win_idleStartTime = NullTime
    /\ handled = 0
    /\ dialogs = <<>>
    /\ idleTimeCalls = <<>>
    /\ InitAux
    /\ lastOp = [op |-> "init"]

\* Time passes while the event loop is idle.
Advance(s) ==
    /\ AllReady /\ Dispatched
    /\ AddSecs(now, s) <= AddSecs(0, MaxWindowSeconds)
    /\ now' = AddSecs(now, s)
    /\ lastOp' = [op |-> "advance"]
    /\ UNCHANGED <<m_lastActivityTime, m_idleStartTime, m_isCurrentlyIdle,
                   m_idleThresholdSeconds, timerActive, pc, events,
                   intervalCount, openInterval, openThreshold, m_mutex, stack, quiet>>
    /\ UNCHANGED <<upVars, winVars>>
    /\ UNCHANGED auxVars

\* An input hook reports activity to the detector.
WindowActivity == AllReady /\ Dispatched /\ UpdateLastActivityTime("ui")

\* The detector's poll timer fires.
WindowTimerPoll == AllReady /\ Dispatched /\ TimerPoll

\* TimeTrackerMainWindow::onIdleStarted(idleThresholdSeconds)
OnIdleStarted ==
    /\ handled < Len(events)
    /\ events[handled + 1].type = "idleStarted"
    /\ win_idleStartTime' = AddSecs(now, -events[handled + 1].arg)
    /\ handled' = handled + 1
    /\ lastOp' = [op |-> "onIdleStarted", arg |-> events[handled + 1].arg,
                  openable |-> fileOpenable]
    /\ UNCHANGED <<dialogs, idleTimeCalls>>
    /\ UNCHANGED <<detVars, upVars>>
    /\ UNCHANGED auxVars

\* TimeTrackerMainWindow::onIdleEnded(idleDurationSeconds), with
\* showIdleAnnotationDialog() when the duration calls for it.
OnIdleEnded ==
    /\ handled < Len(events)
    /\ events[handled + 1].type = "idleEnded"
    /\ dialogs' = IF ShouldAnnotate(events[handled + 1].arg)
                  THEN Append(dialogs, NewDialog(win_idleStartTime, now,
                                                 events[handled + 1].interval,
                                                 m_idleStartTime, events[handled + 1].arg))
                  ELSE dialogs
    /\ handled' = handled + 1
    /\ lastOp' = [op |-> "onIdleEnded", arg |-> events[handled + 1].arg,
                  openable |-> fileOpenable]
    /\ UNCHANGED <<win_idleStartTime, idleTimeCalls>>
    /\ UNCHANGED <<detVars, upVars>>
    /\ UNCHANGED auxVars

\* The reason combo box is set to a text.
SetReason(d, text) ==
    /\ AllReady /\ Dispatched
    /\ d \in 1..Len(dialogs)
    /\ dialogs' = [dialogs EXCEPT ![d].reason = SetCurrentText(ReasonItems, @, text)]
    /\ lastOp' = [op |-> "setReason", dialog |-> d]
    /\ UNCHANGED <<win_idleStartTime, handled, idleTimeCalls>>
    /\ UNCHANGED <<detVars, upVars>>
    /\ UNCHANGED auxVars

\* The note text is edited.
SetNote(d, text) ==
    /\ AllReady /\ Dispatched
    /\ d \in 1..Len(dialogs)
    /\ dialogs' = [dialogs EXCEPT ![d].note = text]
    /\ lastOp' = [op |-> "setNote", dialog |-> d]
    /\ UNCHANGED <<win_idleStartTime, handled, idleTimeCalls>>
    /\ UNCHANGED <<detVars, upVars>>
    /\ UNCHANGED auxVars

\* IdleAnnotationDialog::submitAnnotation(): when the reason is valid it emits
\* annotationSubmitted, which runs TimeTrackerMainWindow::onIdleAnnotationSubmitted
\* (the uploadIdleTime call and the line appended to activity_log.txt), and then
\* accepts the dialog; otherwise it only shows a warning.
SubmitAnnotation(d) ==
    /\ AllReady /\ Dispatched
    /\ d \in 1..Len(dialogs)
    /\ Len(dialogs[d].emitted) < MaxSubmissions
    /\ LET dlg == dialogs[d]
           call == [reason |-> dlg.reason, note |-> dlg.note]
           data == AnnotationData(dlg.reason, dlg.note, win_idleStartTime, now)
       IN  /\ IF IsValid(dlg.reason)
              THEN /\ nextId <= MaxRecords
                   /\ dialogs' = [dialogs EXCEPT ![d].emitted = Append(@, call),
                                                 ![d].result = "accepted"]
                   /\ idleTimeCalls' = UploadIdleTime(idleTimeCalls, data, d, nextId,
                                                      fileOpenable)
                   /\ store' = AppendLine(store, AnnotatedLine(nextId, data), fileOpenable)
                   /\ appended' = IF fileOpenable THEN appended \cup {nextId} ELSE appended
                   /\ nextId' = nextId + 1
              ELSE UNCHANGED <<dialogs, idleTimeCalls, store, appended, nextId>>
           /\ lastOp' = [op |-> "submitAnnotation", dialog |-> d, reason |-> dlg.reason,
                         note |-> dlg.note, result |-> dlg.result,
                         nEmitted |-> Len(dlg.emitted), openable |-> fileOpenable]
    /\ UNCHANGED <<win_idleStartTime, handled>>
    /\ UNCHANGED <<fileOpenable, inflight, requestCount, posted, delivered, signals,
                   failedBatch, normal>>
    /\ UNCHANGED detVars
    /\ UNCHANGED auxVars

\* reject(): what onCancelClicked() does to the dialog.
Reject_Submitting(dlg) ==
    [dlg EXCEPT !.result = "rejected",
                !.emitted = Append(@, [reason |-> dlg.reason, note |-> dlg.note])]

Reject(dlg) == [dlg EXCEPT !.result = "rejected"]

\* IdleAnnotationDialog::onCancelClicked()
CancelClicked(d) ==
    /\ AllReady /\ Dispatched
    /\ d \in 1..Len(dialogs)
    /\ dialogs' = [dialogs EXCEPT ![d] = Reject(@)]
    /\ lastOp' = [op |-> "cancel", dialog |-> d]
    /\ UNCHANGED <<win_idleStartTime, handled, idleTimeCalls>>
    /\ UNCHANGED <<detVars, upVars>>
    /\ UNCHANGED auxVars

\* What the reply to an idle-time request does to the call: idleTimeUploaded(success).
IdleTimeReply_Lost(call, success) == call

IdleTimeReply(call, success) ==
    [call EXCEPT !.outcome = IF success THEN "uploaded" ELSE "failed"]

\* The reply to an idle-time request arrives; the window only logs the outcome.
HandleIdleTimeResponse(i, success) ==
    /\ AllReady /\ Dispatched
    /\ i \in 1..Len(idleTimeCalls)
    /\ idleTimeCalls[i].outcome = "pending"
    /\ idleTimeCalls' = [idleTimeCalls EXCEPT ![i] = IdleTimeReply(@, success)]
    /\ lastOp' = [op |-> "idleTimeUploaded", call |-> i]
    /\ UNCHANGED <<win_idleStartTime, handled, dialogs>>
    /\ UNCHANGED <<detVars, upVars>>
    /\ UNCHANGED auxVars

\* From an idle interval to the submission of its annotation.
NextWindow ==
    \/ \E s \in WindowTimeSteps : Advance(s)
    \/ WindowActivity
    \/ WindowTimerPoll
    \/ EmitIdleStarted("ui")
    \/ EmitIdleEnded("ui")
    \/ OnIdleStarted
    \/ OnIdleEnded
    \/ \E d \in 1..MaxEvents, text \in ReasonInputs : SetReason(d, text)
    \/ \E d \in 1..MaxEvents : SubmitAnnotation(d)

SpecWindow == InitWindow /\ [][NextWindow]_vars

\* activity_log.txt becomes unopenable or openable again while a dialog is up.
DialogFileAvailability == AllReady /\ Dispatched /\ FileAvailability

\* One dialog has just been shown: the detector went idle 300 seconds after the
\* window came up and activity resumed 60 seconds later (a state of SpecWindow).
InitDialog ==
    /\ now = AddSecs(0, WindowIdleThreshold + AnnotationMinSeconds)
    /\ m_lastActivityTime = now
    /\ m_idleStartTime = AddSecs(0, WindowIdleThreshold)
    /\ m_isCurrentlyIdle = FALSE
    /\ m_idleThresholdSeconds = WindowIdleThreshold
    /\ timerActive = TRUE
    /\ pc = [t \in Threads |-> Ready]
    /\ events = <<[type |-> "idleStarted", arg |-> WindowIdleThreshold, interval |-> 1],
                  [type |-> "idleEnded", arg |-> AnnotationMinSeconds, interval |-> 1]>>
    /\ intervalCount = 1
    /\ openInterval = 1
    /\ openThreshold = WindowIdleThreshold
    /\ m_mutex = "free"
    /\ stack = [t \in Threads |-> <<>>]
    /\ quiet = NotQuiet
    /\ store \in InitialStores
    /\ fileOpenable = TRUE
    /\ nextId = 1
    /\ inflight = {}
    /\ requestCount = 0
    /\ posted = [id \in RecordIds |-> 0]
    /\ delivered = {}
    /\ appended = {}
    /\ signals = <<>>
    /\ failedBatch = {}
    /\ normal = TRUE
    /\ win_idleStartTime = 0
    /\ handled = 2
    /\ dialogs = <<NewDialog(0, now, 1, m_idleStartTime, AnnotationMinSeconds)>>
    /\ idleTimeCalls = <<>>
    /\ InitAux
    /\ lastOp = [op |-> "onIdleEnded", arg |-> AnnotationMinSeconds, openable |-> TRUE]

\* What can happen to a dialog that is up, and to the requests it caused.
NextDialog ==
    \/ \E d \in 1..MaxEvents, text \in ReasonInputs : SetReason(d, text)
    \/ \E d \in 1..MaxEvents, text \in NoteInputs : SetNote(d, text)
    \/ \E d \in 1..MaxEvents : SubmitAnnotation(d)
    \/ \E d \in 1..MaxEvents : CancelClicked(d)
    \/ \E i \in 1..MaxRecords, success \in BOOLEAN : HandleIdleTimeResponse(i, success)
    \/ DialogFileAvailability

SpecDialog == InitDialog /\ [][NextDialog]_vars

\* The requests of a dialog when the transport answers every request in the
\* end: QNetworkReply::finished() is emitted for every reply, with or without
\* an error, and the event loop delivers it.
NextIdleUpload ==
    \/ \E d \in 1..MaxEvents, text \in ReasonInputs : SetReason(d, text)
    \/ \E d \in 1..MaxEvents, text \in NoteInputs : SetNote(d, text)
    \/ \E d \in 1..MaxEvents : SubmitAnnotation(d)
    \/ \E i \in 1..MaxRecords, success \in BOOLEAN : HandleIdleTimeResponse(i, success)

RepliesArrive ==
    \A i \in 1..MaxRecords :
        WF_vars(\E success \in BOOLEAN : HandleIdleTimeResponse(i, success))

SpecIdleUpload == InitDialog /\ [][NextIdleUpload]_vars /\ RepliesArrive

(***************************************************************************)
(* TimeTrackerMainWindow::trackActiveApplication(): the foreground-window   *)
(* tracker, fired by m_appTrackerTimer.                                    *)
(***************************************************************************)
\* What the OS reports for a sample: no foreground window, or a window with
\* its title and, if its process could be opened and queried, the file name
\* of the process image.
ForegroundSamples ==
    {[hwnd |-> FALSE, title |-> "", opened |-> FALSE, fileName |-> ""],
     [hwnd |-> TRUE, title |-> "Inbox", opened |-> TRUE, fileName |-> "mail.exe"],
     [hwnd |-> TRUE, title |-> "Inbox", opened |-> FALSE, fileName |-> ""],
     [hwnd |-> TRUE, title |-> "", opened |-> TRUE, fileName |-> "mail.exe"]}

\* The (process name, window title) pair the tracker derives from a sample.
ForegroundPair(sample) ==
    IF ~sample.hwnd
    THEN <<"Desktop", "Desktop/No Active Window">>
    ELSE <<IF sample.opened THEN sample.fileName ELSE "Unknown", sample.title>>

\* The change test of trackActiveApplication().
PairChanged_TitleOnly(pair, lastProcessName, lastWindowTitle) ==
    pair[2] # lastWindowTitle

PairChanged(pair, lastProcessName, lastWindowTitle) ==
    pair[2] # lastWindowTitle \/ pair[1] # lastProcessName

\* "ts - ACTIVE_APP - PROCESS: p - TITLE: t"
ActiveAppLine(id, pair) ==
    <<id, "ACTIVE_APP", <<"PROCESS", pair[1]>>, <<"TITLE", pair[2]>>>>

\* TimeTrackerMainWindow::trackActiveApplication()
TrackActiveApplication(sample) ==
    /\ nextId <= MaxSamples
    /\ LET pair == ForegroundPair(sample)
           changed == PairChanged(pair, m_lastProcessName, m_lastWindowTitle)
       IN  /\ IF changed
              THEN /\ store' = AppendLine(store, ActiveAppLine(nextId, pair), fileOpenable)
                   /\ appended' = IF fileOpenable THEN appended \cup {nextId} ELSE appended
                   /\ nextId' = nextId + 1
                   /\ m_lastWindowTitle' = pair[2]
                   /\ m_lastProcessName' = pair[1]
              ELSE UNCHANGED <<store, appended, nextId, m_lastWindowTitle,
                               m_lastProcessName>>
           /\ prevSample' = pair
           /\ lastOp' = [op |-> "trackActiveApplication", pair |-> pair,
                         previous |-> prevSample, openable |-> fileOpenable]
    /\ UNCHANGED <<fileOpenable, inflight, requestCount, posted, delivered, signals,
                   failedBatch, normal>>
    /\ UNCHANGED <<shotVars, textVars, agentVars, lockVars>>
    /\ UNCHANGED <<detVars, winVars>>

\* An input hook appends a line between two samples.
TrackerLogInputEvent == nextId <= MaxRecords /\ LogInputEvent

\* The log file changes availability between two samples.
TrackerFileAvailability == FileAvailability

NextTracker ==
    \/ \E sample \in ForegroundSamples : TrackActiveApplication(sample)
    \/ TrackerLogInputEvent
    \/ TrackerFileAvailability

SpecTracker == Init /\ [][NextTracker]_vars

(***************************************************************************)
(* Screenshots: TimeTrackerMainWindow::captureScreenshot() saves a file and *)
(* hands it to ApiService::uploadScreenshot(); the reply is handled by      *)
(* ApiService::handleScreenshotResponse().                                  *)
(***************************************************************************)
\* The two tests of uploadScreenshot(): file.exists() and
\* file.open(QIODevice::ReadOnly).
CanUpload_Always(path, files, openable) == TRUE

CanUpload(path, files, openable) == path \in files /\ path \in openable

\* handleScreenshotResponse(): QFile::remove(filePath) on QNetworkReply::NoError.
FilesAfterReply_Removed(files, path, noError) == files \ {path}

FilesAfterReply(files, path, noError) ==
    IF noError THEN files \ {path} ELSE files

\* The number of requests posted so far.
RECURSIVE SumOver(_, _)
SumOver(f, S) ==
    IF S = {} THEN 0
    ELSE LET x == CHOOSE y \in S : TRUE IN f[x] + SumOver(f, S \ {x})

ShotRequestCount == SumOver(shotRequests, Paths)

\* The number of uploadScreenshot() calls made so far: each one has emitted a
\* failure at once, or posted a request that is in flight or was answered.
ShotCalls == Len(screenshotUploaded) + Cardinality(shotInflight)

\* The body of ApiService::uploadScreenshot(filePath, userId, sessionId), over
\* the files as they are when it is called.
UploadScreenshotBody(path, files, openable) ==
    IF CanUpload(path, files, openable)
    THEN /\ shotInflight' = shotInflight \cup
                {[rid |-> ShotRequestCount + 1, filePath |-> path]}
         /\ shotRequests' = [shotRequests EXCEPT ![path] = @ + 1]
         /\ UNCHANGED screenshotUploaded
    ELSE /\ screenshotUploaded' =
                Append(screenshotUploaded, [success |-> FALSE, filePath |-> path])
         /\ UNCHANGED <<shotInflight, shotRequests>>

\* ApiService::uploadScreenshot(), called directly with any path.
UploadScreenshot(path) ==
    /\ ShotCalls < MaxShotCalls
    /\ UploadScreenshotBody(path, disk, readable)
    /\ lastOp' = [op |-> "uploadScreenshot", filePath |-> path,
                  exists |-> path \in disk, openable |-> path \in readable]
    /\ UNCHANGED <<disk, readable, shotConfirmed>>
    /\ UNCHANGED <<trackVars, textVars, agentVars, lockVars>>
    /\ UNCHANGED <<detVars, upVars, winVars>>

\* The file name of the next capture: the stamp is the current time, so a name
\* is never used twice.
IsFresh(path) ==
    /\ path \notin disk
    /\ path \notin shotConfirmed
    /\ shotRequests[path] = 0
    /\ \A i \in 1..Len(screenshotUploaded) : screenshotUploaded[i].filePath # path

\* The body of TimeTrackerMainWindow::captureScreenshot(), after the locker is
\* taken: a saved screenshot is uploaded at once, a failed save is only logged.
CaptureScreenshotBody(path, saved) ==
    /\ ShotCalls < MaxShotCalls
    /\ IsFresh(path)
    /\ IF saved
       THEN /\ disk' = disk \cup {path}
            /\ readable' = readable \cup {path}
            /\ UploadScreenshotBody(path, disk', readable')
            /\ lastOp' = [op |-> "captureScreenshot", filePath |-> path, saved |-> TRUE]
       ELSE /\ lastOp' = [op |-> "captureScreenshot", filePath |-> path, saved |-> FALSE]
            /\ UNCHANGED <<disk, readable, shotInflight, shotRequests,
                           screenshotUploaded>>
    /\ UNCHANGED shotConfirmed

\* TimeTrackerMainWindow::captureScreenshot(), fired by m_screenshotTimer: the
\* whole call, from the locker to the return.
CaptureScreenshot(path, saved) ==
    /\ m_screenshotMutex = "free"
    /\ CaptureScreenshotBody(path, saved)
    /\ UNCHANGED <<trackVars, textVars, agentVars, lockVars>>
    /\ UNCHANGED <<detVars, upVars, winVars>>

\* A screenshot file is locked by another process, or released again.
ReadableChange(path) ==
    /\ path \in disk
    /\ readable' = IF path \in readable THEN readable \ {path}
                                         ELSE readable \cup {path}
    /\ lastOp' = [op |-> "readableChange", filePath |-> path]
    /\ UNCHANGED <<disk, shotInflight, shotRequests, shotConfirmed,
                   screenshotUploaded>>
    /\ UNCHANGED <<trackVars, textVars, agentVars, lockVars>>
    /\ UNCHANGED <<detVars, upVars, winVars>>

\* ApiService::handleScreenshotResponse(reply)
HandleScreenshotResponse(req, noError) ==
    /\ req \in shotInflight
    /\ shotInflight' = shotInflight \ {req}
    /\ disk' = FilesAfterReply(disk, req.filePath, noError)
    /\ readable' = readable \cap disk'
    /\ shotConfirmed' = IF noError THEN shotConfirmed \cup {req.filePath}
                                    ELSE shotConfirmed
    /\ screenshotUploaded' =
           Append(screenshotUploaded, [success |-> noError, filePath |-> req.filePath])
    /\ lastOp' = [op |-> "handleScreenshotResponse", filePath |-> req.filePath,
                  noError |-> noError, existed |-> req.filePath \in disk]
    /\ UNCHANGED shotRequests
    /\ UNCHANGED <<trackVars, textVars, agentVars, lockVars>>
    /\ UNCHANGED <<detVars, upVars, winVars>>

NextScreenshot ==
    \/ \E path \in Paths, saved \in BOOLEAN : CaptureScreenshot(path, saved)
    \/ \E path \in Paths : UploadScreenshot(path)
    \/ \E path \in Paths : ReadableChange(path)
    \/ \E req \in shotInflight, noError \in BOOLEAN : HandleScreenshotResponse(req, noError)

SpecScreenshot == Init /\ [][NextScreenshot]_vars

(***************************************************************************)
(* activity_log.txt as text. A line is a sequence of characters; a word    *)
(* without white space or dash ("KEY_DOWN", "NOTE:") stands as one         *)
(* character. The producers write "timestamp - EVENTTYPE - details" and a  *)
(* line end; readActivityLogs() reads the lines back.                      *)
(***************************************************************************)
Delimiter == <<" ", "-", " ">>

LineEnd == "\n"

IsSpace(c) == c \in {" ", LineEnd}

\* operator<< of the producers: the three fields, delimited, and std::endl.
Serialize(timestamp, eventType, details) ==
    timestamp \o Delimiter \o eventType \o Delimiter \o details \o <<LineEnd>>

\* QTextStream::readLine() until atEnd(): the text cut at its line ends.
RECURSIVE ReadLines(_, _)
ReadLines(text, line) ==
    IF text = <<>> THEN (IF line = <<>> THEN <<>> ELSE <<line>>)
    ELSE IF Head(text) = LineEnd THEN <<line>> \o ReadLines(Tail(text), <<>>)
    ELSE ReadLines(Tail(text), Append(line, Head(text)))

\* QString::trimmed()
RECURSIVE TrimLeft(_)
TrimLeft(line) ==
    IF line # <<>> /\ IsSpace(Head(line)) THEN TrimLeft(Tail(line)) ELSE line

RECURSIVE TrimRight(_)
TrimRight(line) ==
    IF line # <<>> /\ IsSpace(line[Len(line)])
    THEN TrimRight(SubSeq(line, 1, Len(line) - 1)) ELSE line

Trimmed(line) == TrimRight(TrimLeft(line))

StartsWith(line, sep) ==
    Len(line) >= Len(sep) /\ SubSeq(line, 1, Len(sep)) = sep

\* QString::split(sep): the parts between the occurrences of sep, found from
\* the left, empty parts kept.
RECURSIVE Split(_, _, _)
Split(line, sep, part) ==
    IF line = <<>> THEN <<part>>
    ELSE IF StartsWith(line, sep)
         THEN <<part>> \o Split(SubSeq(line, Len(sep) + 1, Len(line)), sep, <<>>)
         ELSE Split(Tail(line), sep, Append(part, Head(line)))

\* QStringList::join(sep)
RECURSIVE Join(_, _)
Join(parts, sep) ==
    IF parts = <<>> THEN <<>>
    ELSE IF Len(parts) = 1 THEN parts[1]
    ELSE parts[1] \o sep \o Join(Tail(parts), sep)

\* The loop body of readActivityLogs() for the lines of the text.
RECURSIVE ParseText(_)
ParseText(lines) ==
    IF lines = <<>> THEN <<>>
    ELSE LET line == Trimmed(Head(lines))
             parts == Split(line, Delimiter, <<>>)
             rest == ParseText(Tail(lines))
         IN  IF line = <<>> THEN rest
             ELSE IF IsLogEntry(parts)
                  THEN <<[timestamp |-> parts[1], eventType |-> parts[2],
                          details |-> Join(Mid(parts, 2), Delimiter)]>> \o rest
                  ELSE rest

\* ApiService::readActivityLogs() over the text of the file.
ReadActivityLogsText(text) == ParseText(ReadLines(text, <<>>))

\* The stamp of a line: "2025-06-14 23:18:45.123" has blanks and dashes but no
\* blank-dash-blank.
Timestamp == <<"2025-06-14", " ", "23:18:45.123">>

\* Records the producers write: a key event, a window change with a title and
\* with an empty title, an annotation with a note, with an empty note and with
\* a note of two lines, and a record with empty details.
RecordInputs ==
    {[eventType |-> <<"KEY_DOWN">>, details |-> <<"VK", " ", "Code:", " ", "65">>],
     [eventType |-> <<"ACTIVE_APP">>,
      details |-> <<"PROCESS:", " ", "mail.exe", " ", "-", " ", "TITLE:", " ", "Inbox">>],
     [eventType |-> <<"ACTIVE_APP">>,
      details |-> <<"PROCESS:", " ", "mail.exe", " ", "-", " ", "TITLE:", " ">>],
     [eventType |-> <<"IDLE_ANNOTATED">>,
      details |-> <<"REASON:", " ", "Meeting", " ", "-", " ", "NOTE:", " ", "call">>],
     [eventType |-> <<"IDLE_ANNOTATED">>,
      details |-> <<"REASON:", " ", "Meeting", " ", "-", " ", "NOTE:", " ">>],
     [eventType |-> <<"IDLE_ANNOTATED">>,
      details |-> <<"REASON:", " ", "Meeting", " ", "-", " ", "NOTE:", " ", "a", LineEnd, "b">>],
     [eventType |-> <<"SYSTEM">>, details |-> <<>>]}

\* Lines something else left in the file: one word, a stamp and a type with no
\* details, a blank line, a line of blanks.
RawLineInputs ==
    {<<"garbage">>,
     Timestamp \o Delimiter \o <<"SYSTEM">>,
     <<>>,
     <<" ", " ">>}

\* A producer appends a record.
AppendRecord(rec) ==
    /\ Len(written) < MaxLogLines
    /\ logText' = logText \o Serialize(Timestamp, rec.eventType, rec.details)
    /\ written' = Append(written, [kind |-> "record", eventType |-> rec.eventType,
                                    details |-> rec.details])
    /\ lastOp' = [op |-> "appendRecord"]
    /\ UNCHANGED <<trackVars, shotVars, agentVars, lockVars>>
    /\ UNCHANGED <<detVars, upVars, winVars>>

\* A line that is not a record gets into the file.
AppendRawLine(line) ==
    /\ Len(written) < MaxLogLines
    /\ logText' = logText \o line \o <<LineEnd>>
    /\ written' = Append(written, [kind |-> "raw", eventType |-> <<>>, details |-> line])
    /\ lastOp' = [op |-> "appendRawLine"]
    /\ UNCHANGED <<trackVars, shotVars, agentVars, lockVars>>
    /\ UNCHANGED <<detVars, upVars, winVars>>

\* ApiService::readActivityLogs() is run on the file.
ReadLog ==
    /\ lastOp' = [op |-> "readActivityLogs", logs |-> ReadActivityLogsText(logText)]
    /\ UNCHANGED <<textVars, trackVars, shotVars, agentVars, lockVars>>
    /\ UNCHANGED <<detVars, upVars, winVars>>

NextLogText ==
    \/ \E rec \in RecordInputs : AppendRecord(rec)
    \/ \E line \in RawLineInputs : AppendRawLine(line)
    \/ ReadLog

SpecLogText == Init /\ [][NextLogText]_vars

(***************************************************************************)
(* The life of TimeTrackerMainWindow instances: constructor, destructor,    *)
(* the timers each instance owns and the input hooks, whose static          *)
(* callbacks reach an instance through s_instance. Timer slots and hook     *)
(* callbacks are delivered by the event loop of the thread that owns the    *)
(* windows, between constructor and destructor calls.                       *)
(***************************************************************************)
\* m_screenshotTimer, m_appTrackerTimer, the detector's m_checkTimer and the
\* ApiService's m_uploadTimer.
WindowTimers == {"screenshot", "appTracker", "idlePoll", "upload"}

\* The constructor's `s_instance = this`.
InstanceAfterConstruct(current, i) == i

\* The destructor's `s_instance = nullptr`.
InstanceAfterDestroy(current, i) == NullInstance

\* The destructor's body stops m_screenshotTimer and m_appTrackerTimer and
\* calls m_idleDetector->stop().
TimersAfterDestructorBody(timers) ==
    timers \ {"screenshot", "appTracker", "idlePoll"}

\* The children are deleted after the body: ~ApiService() stops m_uploadTimer.
TimersAfterChildren(timers) == timers \ {"upload"}

\* UnhookWindowsHookEx for both hooks.
Unhook_Skipped(hooks) == hooks

Unhook(hooks) == FALSE

\* TimeTrackerMainWindow::TimeTrackerMainWindow(): SetWindowsHookExW may fail.
Construct(i, hooksOk) ==
    /\ agents[i].life = "none"
    /\ s_instance' = InstanceAfterConstruct(s_instance, i)
    /\ agents' = [agents EXCEPT ![i] =
                      [life |-> "alive", hooks |-> hooksOk, timers |-> WindowTimers,
                       idle |-> FALSE, activity |-> 0]]
    /\ lastOp' = [op |-> "construct", agent |-> i, handler |-> "none"]
    /\ UNCHANGED <<trackVars, shotVars, textVars, lockVars>>
    /\ UNCHANGED <<detVars, upVars, winVars>>

\* delete window: the destructor's body, then the deletion of the children.
\* stop() on an idle detector emits idleEnded, so onIdleEnded() runs inside it.
Destroy(i) ==
    /\ agents[i].life = "alive"
    /\ s_instance' = InstanceAfterDestroy(s_instance, i)
    /\ agents' = [agents EXCEPT ![i] =
                      [life |-> "destroyed", hooks |-> Unhook(@.hooks),
                       timers |-> TimersAfterChildren(TimersAfterDestructorBody(@.timers)),
                       idle |-> FALSE, activity |-> @.activity]]
    /\ lastOp' = [op |-> "destroy", agent |-> i,
                  handler |-> IF agents[i].idle THEN "onIdleEnded" ELSE "none"]
    /\ UNCHANGED <<trackVars, shotVars, textVars, lockVars>>
    /\ UNCHANGED <<detVars, upVars, winVars>>

\* LowLevelKeyboardProc / LowLevelMouseProc, called by the OS for the hook that
\* instance i installed: it updates the detector of the instance s_instance
\* points to, if any, which ends that detector's idle interval.
HookCallback(i) ==
    /\ agents[i].hooks
    /\ IF s_instance # NullInstance
       THEN /\ agents[s_instance].activity < MaxHookCalls
            /\ agents' = [agents EXCEPT ![s_instance].activity = @ + 1,
                                        ![s_instance].idle = FALSE]
            /\ lastOp' = [op |-> "hookCallback", hook |-> i, agent |-> s_instance,
                          handler |-> IF agents[s_instance].idle THEN "onIdleEnded"
                                                                 ELSE "none"]
       ELSE /\ UNCHANGED agents
            /\ lastOp' = [op |-> "hookCallback", hook |-> i, agent |-> NullInstance,
                          handler |-> "none"]
    /\ UNCHANGED s_instance
    /\ UNCHANGED <<trackVars, shotVars, textVars, lockVars>>
    /\ UNCHANGED <<detVars, upVars, winVars>>

\* One of the running timers of instance i fires and its slot runs; the poll
\* of the detector may find the threshold crossed and run onIdleStarted().
TimerSlot(i, timer, crossed) ==
    /\ timer \in agents[i].timers
    /\ IF timer = "idlePoll" /\ crossed /\ ~agents[i].idle
       THEN /\ agents' = [agents EXCEPT ![i].idle = TRUE]
            /\ lastOp' = [op |-> "timerSlot", timer |-> timer, agent |-> i,
                          handler |-> "onIdleStarted"]
       ELSE /\ UNCHANGED agents
            /\ lastOp' = [op |-> "timerSlot", timer |-> timer, agent |-> i,
                          handler |-> "none"]
    /\ UNCHANGED s_instance
    /\ UNCHANGED <<trackVars, shotVars, textVars, lockVars>>
    /\ UNCHANGED <<detVars, upVars, winVars>>

NextAgents ==
    \/ \E i \in Instances, hooksOk \in BOOLEAN : Construct(i, hooksOk)
    \/ \E i \in Instances : Destroy(i)
    \/ \E i \in Instances : HookCallback(i)
    \/ \E i \in Instances, timer \in WindowTimers, crossed \in BOOLEAN :
          TimerSlot(i, timer, crossed)

SpecAgents == Init /\ [][NextAgents]_vars

(***************************************************************************)
(* Claims about the IdleDetector                                           *)
(***************************************************************************)
Started(i) == events[i].type = "idleStarted"
Ended(i) == events[i].type = "idleEnded"

\* C1: over any sequence of detector calls the delivered transition events
\* strictly alternate idleStarted, idleEnded, idleStarted, ...; checked over
\* calls made one after the other (SpecSeq).
C1_EventsAlternate ==
    \A i \in 1..Len(events) : IF i % 2 = 1 THEN Started(i) ELSE Ended(i)

\* The idleStarted events delivered since the last start() that started the timer.
StartedSinceStart == {i \in (quiet.from + 1)..Len(events) : Started(i)}

C4_Inv ==
    quiet.on =>
        /\ Cardinality(StartedSinceStart) <= 1
        /\ \A i \in StartedSinceStart : events[i].arg = m_idleThresholdSeconds
        /\ ~m_isCurrentlyIdle => StartedSinceStart = {}
        /\ (m_isCurrentlyIdle /\ pc["ui"] = Ready) => Cardinality(StartedSinceStart) = 1
        /\ m_isCurrentlyIdle =>
              /\ SecsTo(m_lastActivityTime, now) >= m_idleThresholdSeconds
              /\ m_idleStartTime = AddSecs(m_lastActivityTime, m_idleThresholdSeconds)
        /\ (lastOp.op = "checkIdleState"
              /\ SecsTo(m_lastActivityTime, now) >= m_idleThresholdSeconds)
             => m_isCurrentlyIdle

C4_LaterCheck ==
    (quiet.on /\ m_isCurrentlyIdle /\ lastOp'.op = "checkIdleState" /\ lastOp' # lastOp)
        => UNCHANGED <<m_lastActivityTime, m_idleStartTime, m_isCurrentlyIdle,
                       m_idleThresholdSeconds, timerActive, pc, events>>

\* C4: after start() with threshold t and no activity, stop or threshold change,
\* idleStarted is delivered exactly once, by the first check at which
\* secsTo(lastActivityTime, now) >= t, with argument t; a later check while idle
\* emits nothing and changes no detector state.
C4_IdleStartedExactlyOnce == [](C4_Inv) /\ [][C4_LaterCheck]_vars

\* C4 witness: a second check has run on an idle detector after the one
\* idleStarted of this start() was delivered.
C4_Witness ==
    /\ quiet.on /\ m_isCurrentlyIdle /\ pc["ui"] = Ready
    /\ lastOp.op = "checkIdleState" /\ lastOp.wasIdle
    /\ Cardinality(StartedSinceStart) = 1

\* C5: a stop() that found the detector idle has, when it returns, delivered
\* exactly one idleEnded carrying secsTo(idleStartTime, now) and left isIdle()
\* false; a stop() that found it not idle has delivered nothing.
C5_StopClosesInterval ==
    (lastOp.op = "stop" /\ pc["ui"] = Ready) =>
        IF lastOp.wasIdle
        THEN /\ ~m_isCurrentlyIdle
             /\ Len(events) = lastOp.nEvents + 1
             /\ Ended(Len(events))
             /\ events[Len(events)].arg = lastOp.duration
        ELSE Len(events) = lastOp.nEvents

\* C6: with the idle check and updateLastActivityTime() running concurrently,
\* no idleEnded of an interval is delivered before that interval's idleStarted.
C6_StartBeforeEnd ==
    \A i \in 1..Len(events) :
        Ended(i) => \E j \in 1..(i - 1) :
                       Started(j) /\ events[j].interval = events[i].interval

(***************************************************************************)
(* Claims about the log store and the upload cycle                         *)
(***************************************************************************)
Lines(file) == {file[i] : i \in 1..Len(file)}

\* C2: at most one activity-log upload is in flight at any time.
C2_AtMostOneInFlight == Cardinality(inflight) <= 1

\* The file without the lines of the records of a batch.
WithoutBatch(file, batch) ==
    SelectSeq(file, LAMBDA line : line = <<>> \/ line[1] \notin BatchIds(batch))

C3_Step ==
    /\ \A line \in Lines(store) \ Lines(store') : line[1] \in delivered'
    /\ (lastOp' # lastOp /\ lastOp'.op = "handleActivityResponse" /\ lastOp'.noError)
          => store' = WithoutBatch(store, lastOp'.activityLogs)

\* C3: a line leaves the store only once a batch containing it is confirmed
\* uploaded, and a successful reply removes exactly the records of its batch.
C3_RemovedOnlyIfUploaded == [][C3_Step]_vars

\* C7: every well-formed record written to the store ends up in a confirmed
\* batch. Nothing puts a removed record back, so each record written must at
\* every moment be still in the store or already confirmed.
C7_NoRecordLost == \A id \in appended : id \in LineIds(store) \/ id \in delivered

\* C8: while no upload has failed and the file always opened, no record is in
\* more than one posted batch.
C8_NoDuplicateDelivery == normal => \A id \in RecordIds : posted[id] <= 1

\* C9: handling a failed reply leaves the store as it was and emits
\* activityLogsUploaded(false), and the batch of the next upload cycle (that
\* can read the file) contains every record of the failed batch.
C9_FailedBatchRetried ==
    /\ (lastOp.op = "handleActivityResponse" /\ ~lastOp.noError) =>
          /\ store = lastOp.storeBefore
          /\ signals # <<>> /\ signals[Len(signals)] = FALSE
    /\ (lastOp.op = "uploadActivityLogs" /\ lastOp.readable) =>
          lastOp.afterFailure \subseteq BatchIds(lastOp.activityLogs)

C10_Step ==
    (lastOp' # lastOp /\ lastOp'.op = "uploadActivityLogs"
        /\ ReadActivityLogs(store, fileOpenable) = <<>>)
      => UNCHANGED <<store, inflight, requestCount, posted, delivered, signals>>

\* C10: an upload cycle that reads no log entry (the file is empty, holds no
\* well-formed line, or cannot be opened) posts no request, leaves the store
\* unchanged and emits no upload-result signal.
C10_EmptyCycleDoesNothing == [][C10_Step]_vars

\* C10 witness: a cycle has just run on a file that holds a record but could
\* not be opened, and one on a file that was empty.
C10_Witness ==
    /\ lastOp.op = "uploadActivityLogs"
    /\ lastOp.activityLogs = <<>>
    /\ ~lastOp.readable
    /\ appended \cap LineIds(store) # {}

(***************************************************************************)
(* Claims about single IdleDetector operations                             *)
(***************************************************************************)
\* The locked section of updateLastActivityTime(): what it leaves behind.
C11_Step ==
    (lastOp'.op = "updateLastActivityTime" /\ lastOp' # lastOp) =>
        /\ m_lastActivityTime' = now
        /\ ~m_isCurrentlyIdle'
        /\ events' = events
        /\ UNCHANGED <<m_idleStartTime, m_idleThresholdSeconds, timerActive>>
        /\ IF m_isCurrentlyIdle
           THEN /\ m_idleStartTime = AddSecs(m_lastActivityTime, openThreshold)
                /\ \E t \in Threads :
                      /\ pc[t] = Ready
                      /\ pc'[t].at = "emitEnded"
                      /\ pc'[t].arg = SecsTo(AddSecs(m_lastActivityTime, openThreshold), now)
           ELSE pc' = pc

\* updateLastActivityTime() has returned.
C11_Returned ==
    (lastOp.op = "updateLastActivityTime" /\ AllReady) =>
        /\ ~m_isCurrentlyIdle
        /\ m_lastActivityTime = lastOp.at
        /\ IF lastOp.wasIdle
           THEN /\ Len(events) = lastOp.nEvents + 1
                /\ events[Len(events)].type = "idleEnded"
                /\ events[Len(events)].arg =
                      SecsTo(AddSecs(lastOp.lastActivityTime, openThreshold), lastOp.at)
           ELSE Len(events) = lastOp.nEvents

\* C11: updateLastActivityTime() called while idle leaves isIdle false and
\* lastActivityTime at the call instant, and delivers exactly one idleEnded whose
\* duration is the call instant minus idleStartTime, idleStartTime being the
\* lastActivityTime at entry plus the threshold of the check that entered idle;
\* called while not idle it only updates lastActivityTime and emits nothing.
\* Checked over calls made one after the other (SpecSeq).
C11_ActivityClosesInterval == [](C11_Returned) /\ [][C11_Step]_vars

\* C11 witness: the call found the detector idle, well after the idle start, and
\* has returned with its idleEnded delivered.
C11_Witness ==
    /\ lastOp.op = "updateLastActivityTime" /\ lastOp.wasIdle /\ AllReady
    /\ Len(events) = lastOp.nEvents + 1
    /\ events[Len(events)].type = "idleEnded"
    /\ events[Len(events)].arg >= 1
    /\ lastOp.idleStartTime > lastOp.lastActivityTime

\* A setIdleThresholdSeconds(seconds) step with seconds <= 0.
C13_Step ==
    (lastOp'.op = "setIdleThresholdSeconds" /\ lastOp' # lastOp /\ lastOp'.seconds <= 0)
        => UNCHANGED <<m_idleThresholdSeconds, m_lastActivityTime, m_idleStartTime,
                       m_isCurrentlyIdle, timerActive, pc, events>>

\* C13: setIdleThresholdSeconds(s) with s <= 0 keeps the threshold, changes no
\* other detector state and produces no event; the threshold is > 0 in every
\* reachable state.
C13_NonPositiveThresholdRejected ==
    [](m_idleThresholdSeconds > 0) /\ [][C13_Step]_vars

\* C13 witness: a non-positive threshold was offered to an idle detector whose
\* threshold had been set before.
C13_Witness ==
    /\ lastOp.op = "setIdleThresholdSeconds" /\ lastOp.seconds <= 0
    /\ m_isCurrentlyIdle
    /\ m_idleThresholdSeconds # DefaultThreshold

\* A start() step.
C14_Step ==
    (lastOp'.op = "start" /\ lastOp' # lastOp) =>
        /\ UNCHANGED <<m_idleStartTime, m_idleThresholdSeconds, pc, events>>
        /\ IF timerActive
           THEN UNCHANGED <<m_lastActivityTime, m_isCurrentlyIdle, timerActive>>
           ELSE /\ m_lastActivityTime' = now
                /\ ~m_isCurrentlyIdle'
                /\ timerActive'

\* C14: start() on a running detector changes neither lastActivityTime, isIdle,
\* idleStartTime nor the threshold and emits nothing; on a detector that is not
\* running it sets lastActivityTime to now, isIdle to false and isRunning to true.
C14_StartIdempotent == [][C14_Step]_vars

\* C14 witness: start() was called on a running detector that was idle, long
\* after the last activity, and left it so.
C14_Witness ==
    /\ lastOp.op = "start" /\ lastOp.wasRunning
    /\ timerActive /\ m_isCurrentlyIdle
    /\ m_lastActivityTime < now

\* The threads that are at an emit statement or inside a handler it entered.
Emitting == {t \in Threads : pc[t].at \in {"emitStarted", "emitEnded"} \/ stack[t] # <<>>}

\* C12: every idleStarted / idleEnded emission happens while the emitting thread
\* does not hold the detector mutex, so a handler that calls back into the
\* detector finds the mutex free of its own thread and cannot block on itself.
C12_EmitsOutsideMutex == \A t \in Emitting : m_mutex # t

\* C12 witness: inside the handler of one emission the thread called back into
\* the detector, and that call is itself at an emit statement.
C12_Witness ==
    \E t \in Threads :
        /\ stack[t] # <<>>
        /\ pc[t].at = "emitEnded"
        /\ lastOp.op \in {"updateLastActivityTime", "stop"}

(***************************************************************************)
(* Claims about the annotation of idle intervals                           *)
(***************************************************************************)
\* The window's handler of an idleEnded event runs in this step.
IdleEndedHandled == handled' = handled + 1 /\ events[handled + 1].type = "idleEnded"

C15_Step ==
    /\ IdleEndedHandled =>
          IF events[handled + 1].arg >= 60
          THEN /\ Len(dialogs') = Len(dialogs) + 1
               /\ SubSeq(dialogs', 1, Len(dialogs)) = dialogs
               /\ dialogs'[Len(dialogs')].reported = events[handled + 1].arg
               /\ dialogs'[Len(dialogs')].result = "open"
          ELSE dialogs' = dialogs
    /\ Len(dialogs') # Len(dialogs) => IdleEndedHandled

C16_IdleRecordsLogged ==
    [][(handled' = handled + 1 /\ fileOpenable) => Len(store') = Len(store) + 1]_vars

\* C17: the annotation handed to uploadIdleTime carries the bounds of its
\* interval: startTime is the detector's idleStartTime, endTime the instant
\* activity resumed, durationSeconds their difference and the duration that
\* idleEnded reported.
C17_AnnotationCarriesInterval ==
    \A i \in 1..Len(idleTimeCalls) :
        LET call == idleTimeCalls[i]
            dlg == dialogs[call.dialog]
        IN  /\ call.data.startTime = dlg.idleStartTime
            /\ call.data.endTime = dlg.resumedAt
            /\ call.data.durationSeconds = SecsTo(call.data.startTime, call.data.endTime)
            /\ call.data.durationSeconds = dlg.reported

\* A submitAnnotation() step.
Submitting == lastOp'.op = "submitAnnotation" /\ lastOp' # lastOp

C18_Step ==
    (Submitting /\ lastOp'.reason = "") =>
        UNCHANGED <<dialogs, idleTimeCalls, store, appended, nextId>>

\* C18: submitAnnotation() with an empty reason emits no annotationSubmitted,
\* does not accept the dialog, and nothing is uploaded or appended.
C18_EmptyReasonRejected == [][C18_Step]_vars

\* C18 witness: a dialog with a note typed in and no reason selected was
\* submitted and is still open, nothing having been emitted.
C18_Witness ==
    /\ lastOp.op = "submitAnnotation" /\ lastOp.reason = "" /\ lastOp.note # ""
    /\ dialogs[lastOp.dialog].result = "open"
    /\ dialogs[lastOp.dialog].emitted = <<>>
    /\ idleTimeCalls = <<>>

\* C19: over any sequence of edits, submitAnnotation() calls and cancels, a
\* dialog emits annotationSubmitted at most once, with a non-empty reason, and
\* never once it has been cancelled.
C19_EmittedAtMostOnce ==
    \A d \in 1..Len(dialogs) :
        /\ Len(dialogs[d].emitted) <= 1
        /\ \A k \in 1..Len(dialogs[d].emitted) : dialogs[d].emitted[k].reason # ""

\* The lines of the file that are IDLE_ANNOTATED records.
AnnotatedLines(file) == {k \in 1..Len(file) : file[k][2] = "IDLE_ANNOTATED"}

\* What an accepted submission does to the idle-time requests.
C20_OneCall ==
    /\ Len(idleTimeCalls') = Len(idleTimeCalls) + 1
    /\ SubSeq(idleTimeCalls', 1, Len(idleTimeCalls)) = idleTimeCalls
    /\ idleTimeCalls'[Len(idleTimeCalls')].data.reason = lastOp'.reason
    /\ idleTimeCalls'[Len(idleTimeCalls')].data.note = lastOp'.note
    /\ idleTimeCalls'[Len(idleTimeCalls')].outcome = "pending"

\* ... and to the file, when it appends.
C20_OneRecord ==
    /\ Len(store') = Len(store) + 1
    /\ SubSeq(store', 1, Len(store)) = store
    /\ store'[Len(store')][2] = "IDLE_ANNOTATED"
    /\ store'[Len(store')][4] = <<"REASON", lastOp'.reason>>
    /\ store'[Len(store')][5] = <<"NOTE", lastOp'.note>>

\* Requests and IDLE_ANNOTATED records come from accepted submissions only,
\* and the reply to a request leaves the file alone.
C20_OnlyBySubmission ==
    /\ (idleTimeCalls' # idleTimeCalls /\ ~Submitting) =>
          (Len(idleTimeCalls') = Len(idleTimeCalls) /\ store' = store)
    /\ ~Submitting => AnnotatedLines(store') = AnnotatedLines(store)

\* Every request whose record was written still has it in the file, whatever
\* became of the request.
C20_RecordStays ==
    \A i \in 1..Len(idleTimeCalls) :
        idleTimeCalls[i].logged =>
            \E k \in AnnotatedLines(store) : store[k][1] = idleTimeCalls[i].lineId

\* C20 as stated: each accepted submission causes exactly one uploadIdleTime call
\* and appends exactly one IDLE_ANNOTATED record, whether or not the upload
\* succeeds.
C20_CallAndRecord ==
    /\ [](C20_RecordStays)
    /\ [][((Submitting /\ lastOp'.reason # "") => (C20_OneCall /\ C20_OneRecord))
           /\ C20_OnlyBySubmission]_vars

\* C20 amended: each accepted submission causes exactly one uploadIdleTime call
\* and, when activity_log.txt can be opened, appends exactly one IDLE_ANNOTATED
\* record (when it cannot, the file is left as it is); the record is written
\* before the outcome of the upload is known and stays whatever the outcome.
C20_CallAndRecordIfOpenable ==
    /\ [](C20_RecordStays)
    /\ [][((Submitting /\ lastOp'.reason # "") =>
              /\ C20_OneCall
              /\ IF fileOpenable THEN C20_OneRecord ELSE store' = store)
           /\ C20_OnlyBySubmission]_vars

\* C20 witness: the upload of an accepted annotation has failed and its
\* IDLE_ANNOTATED record is in the file.
C20_Witness ==
    \E i \in 1..Len(idleTimeCalls) :
        /\ idleTimeCalls[i].outcome = "failed"
        /\ idleTimeCalls[i].logged
        /\ \E k \in AnnotatedLines(store) : store[k][1] = idleTimeCalls[i].lineId

\* A step that is not a submitAnnotation() call adds no emission, no request
\* and no IDLE_ANNOTATED record.
C21_NothingAdded ==
    /\ \A d \in 1..Len(dialogs) : dialogs'[d].emitted = dialogs[d].emitted
    /\ Len(idleTimeCalls') = Len(idleTimeCalls)
    /\ AnnotatedLines(store') = AnnotatedLines(store)
    /\ store' = store

C21_Step ==
    /\ (lastOp'.op = "cancel" /\ lastOp' # lastOp) =>
          /\ C21_NothingAdded
          /\ dialogs'[lastOp'.dialog].result = "rejected"
    /\ ((\E d \in 1..Len(dialogs) : dialogs[d].result = "rejected") /\ ~Submitting) =>
          /\ Len(dialogs') = Len(dialogs)
          /\ C21_NothingAdded

\* C21: cancelling the dialog creates no annotation: the cancel emits no
\* annotationSubmitted, calls no uploadIdleTime and appends no IDLE_ANNOTATED
\* record, and once a dialog is rejected nothing but a further submitAnnotation()
\* call adds any of these (nothing is retried).
C21_CancelCreatesNothing == [][C21_Step]_vars

\* C21 witness: a dialog with a valid reason and a note was cancelled, the file
\* went through a change of availability afterwards, and there is still no
\* emission, request or record.
C21_Witness ==
    /\ dialogs[1].result = "rejected"
    /\ dialogs[1].reason # "" /\ dialogs[1].note # ""
    /\ lastOp.op = "fileAvailability"
    /\ dialogs[1].emitted = <<>>
    /\ idleTimeCalls = <<>>
    /\ AnnotatedLines(store) = {}

\* What getIdleDurationSeconds() returns in the current state.
IdleDuration ==
    GetIdleDurationSeconds(m_isCurrentlyIdle, m_idleStartTime, m_lastActivityTime, now)

\* The step is the clock or a poll: no activity, start, stop or threshold change.
C30_PollOrTick == lastOp'.op \in {"tick", "checkIdleState"}

C30_Step ==
    (m_isCurrentlyIdle /\ m_isCurrentlyIdle' /\ C30_PollOrTick) =>
        /\ IdleDuration >= 0
        /\ IdleDuration' >= IdleDuration

\* C30: while the detector is idle and polled with no intervening activity,
\* start, stop or threshold change, getIdleDurationSeconds() never decreases and
\* is never negative.
C30_IdleDurationMonotone == [][C30_Step]_vars

\* C30 witness: the detector has been idle for at least a second and was
\* polled again.
C30_Witness ==
    /\ m_isCurrentlyIdle /\ timerActive
    /\ lastOp.op = "checkIdleState" /\ lastOp.wasIdle
    /\ IdleDuration >= 1

(***************************************************************************)
(* Claims about the foreground-window tracker                              *)
(***************************************************************************)
Tracking == lastOp'.op = "trackActiveApplication" /\ lastOp' # lastOp

\* The ACTIVE_APP lines of the file, in file order, as (process, title) pairs.
IsActiveAppLine(line) == Len(line) >= 2 /\ line[2] = "ACTIVE_APP"

ActiveAppPairs(file) ==
    LET lines == SelectSeq(file, IsActiveAppLine)
    IN  [i \in 1..Len(lines) |-> <<lines[i][3][2], lines[i][4][2]>>]

\* The step appended an ACTIVE_APP record carrying the sample's pair.
RecordAppended ==
    /\ Len(store') = Len(store) + 1
    /\ store' = Append(store, ActiveAppLine(nextId, lastOp'.pair))

NoRepeatedPair ==
    \A i \in 1..(Len(ActiveAppPairs(store)) - 1) :
        ActiveAppPairs(store)[i] # ActiveAppPairs(store)[i + 1]

C22_StepAsStated ==
    Tracking =>
        /\ RecordAppended <=> (lastOp'.pair # lastOp'.previous)
        /\ ~RecordAppended => store' = store

\* C22 as stated: a sample appends an ACTIVE_APP record iff its pair differs
\* from the previous sample's pair, and no two consecutive ACTIVE_APP records
\* carry the same pair.
C22_EdgeTriggered == [](NoRepeatedPair) /\ [][C22_StepAsStated]_vars

C22_Step ==
    Tracking =>
        /\ RecordAppended <=> (lastOp'.pair # lastOp'.previous /\ lastOp'.openable)
        /\ ~RecordAppended => store' = store

\* C22 amended: a sample appends an ACTIVE_APP record iff its pair differs from
\* the previous sample's pair and the file can be opened; as long as the file
\* has always opened, no two consecutive ACTIVE_APP records carry the same pair.
C22_EdgeTriggeredIfOpenable == [](normal => NoRepeatedPair) /\ [][C22_Step]_vars

\* C22 witness: the sentinel pair was recorded, then a window's pair, then a
\* sample equal to its predecessor was taken and recorded nothing.
C22_Witness ==
    /\ normal
    /\ Len(ActiveAppPairs(store)) = 2
    /\ ActiveAppPairs(store)[1] = <<"Desktop", "Desktop/No Active Window">>
    /\ lastOp.op = "trackActiveApplication"
    /\ lastOp.pair = lastOp.previous
    /\ lastOp.pair = ActiveAppPairs(store)[2]

(***************************************************************************)
(* Claims about screenshot uploads                                         *)
(***************************************************************************)
ShotReply == lastOp'.op = "handleScreenshotResponse" /\ lastOp' # lastOp

ShotUpload == lastOp'.op = "uploadScreenshot" /\ lastOp' # lastOp

C23_Step ==
    /\ (ShotReply /\ ~lastOp'.noError) =>
          /\ disk' = disk
          /\ shotRequests' = shotRequests
          /\ shotInflight' \subseteq shotInflight
    /\ (ShotReply /\ lastOp'.noError) =>
          /\ lastOp'.filePath \notin disk'
          /\ disk' = disk \ {lastOp'.filePath}
    /\ ~ShotReply => disk \subseteq disk'
    /\ (shotRequests' # shotRequests) =>
          lastOp'.op \in {"uploadScreenshot", "captureScreenshot"}

C24_Step ==
    (ShotUpload /\ ~(lastOp'.exists /\ lastOp'.openable)) =>
        /\ shotInflight' = shotInflight
        /\ shotRequests' = shotRequests
        /\ screenshotUploaded' =
               Append(screenshotUploaded,
                      [success |-> FALSE, filePath |-> lastOp'.filePath])
        /\ disk' = disk /\ readable' = readable
        /\ store' = store

\* C24: uploadScreenshot() on a path that does not exist or cannot be opened
\* posts no request, emits exactly one screenshotUploaded(false, path) and
\* changes nothing on disk.
C24_MissingFileReported == [][C24_Step]_vars

\* C24 witness: uploadScreenshot() was called for a file that exists but cannot
\* be opened, after one for a path that does not exist.
C24_Witness ==
    /\ lastOp.op = "uploadScreenshot"
    /\ lastOp.exists /\ ~lastOp.openable
    /\ Len(screenshotUploaded) >= 2
    /\ \E i \in 1..Len(screenshotUploaded) :
          screenshotUploaded[i].filePath \notin disk

(***************************************************************************)
(* Claims about idle-time uploads                                          *)
(***************************************************************************)
\* The i-th uploadIdleTime() call has been made / has had its
\* idleTimeUploaded(success) emitted.
IdleTimeCalled(i) == Len(idleTimeCalls) >= i

IdleTimeSignalled(i) ==
    Len(idleTimeCalls) >= i /\ idleTimeCalls[i].outcome \in {"uploaded", "failed"}

\* A step that makes a call leaves it unanswered: the call returns before any
\* reply is handled.
C25_Step ==
    (Len(idleTimeCalls') > Len(idleTimeCalls)) =>
        /\ Len(idleTimeCalls') = Len(idleTimeCalls) + 1
        /\ idleTimeCalls'[Len(idleTimeCalls')].outcome = "pending"
        /\ \A i \in 1..Len(idleTimeCalls) : idleTimeCalls'[i] = idleTimeCalls[i]

\* C25: every uploadIdleTime(data) call returns without waiting for the
\* transport and is eventually followed by an idleTimeUploaded(success) signal,
\* on success and on failure alike.
C25_EveryCallSignalled ==
    /\ [][C25_Step]_vars
    /\ \A i \in 1..MaxRecords : IdleTimeCalled(i) ~> IdleTimeSignalled(i)

\* C25 witness: two calls were made before any reply; one has ended uploaded
\* and the other failed.
C25_Witness ==
    /\ Len(idleTimeCalls) = 2
    /\ idleTimeCalls[1].outcome = "failed"
    /\ idleTimeCalls[2].outcome = "uploaded"
    /\ lastOp.op = "idleTimeUploaded" /\ lastOp.call = 1

(***************************************************************************)
(* Claims about the text of the log file                                   *)
(***************************************************************************)
ReadDone == lastOp.op = "readActivityLogs"

OnlyRecords == \A i \in 1..Len(written) : written[i].kind = "record"

\* The records read are the records written: as many, in order, with the same
\* eventType and details.
SameRecords(logs, recs) ==
    /\ Len(logs) = Len(recs)
    /\ \A i \in 1..Len(recs) :
          /\ logs[i].eventType = recs[i].eventType
          /\ logs[i].details = recs[i].details

\* C26: appending N well-formed records and then reading yields exactly N
\* parsed records, in order, with identical eventType and details, details
\* containing the delimiter included.
C26_RoundTrip == (ReadDone /\ OnlyRecords) => SameRecords(lastOp.logs, written)

\* The segments of a line, as it stands and with surrounding white space removed.
Segments(line) == Split(line, Delimiter, <<>>)

HasTwoSegments(line) == line # <<>> /\ Len(Segments(line)) >= 2

HasThreeSegments(line) == Len(Segments(Trimmed(line))) >= 3

\* C27 as stated: readActivityLogs() turns every line with at least two
\* delimited segments into a record and skips every other line.
C27_TwoSegmentsParsed ==
    ReadDone =>
        Len(lastOp.logs) = Len(SelectSeq(ReadLines(logText, <<>>), HasTwoSegments))

\* What readActivityLogs() does: it turns every line that has at least three
\* delimited segments, once surrounding white space is removed, into a record
\* carrying its first two segments, in file order, and skips every other line;
\* lines after a skipped line are still parsed.
ThreeSegmentsParsed ==
    ReadDone =>
        LET lines == SelectSeq(ReadLines(logText, <<>>), HasThreeSegments)
        IN  /\ Len(lastOp.logs) = Len(lines)
            /\ \A k \in 1..Len(lines) :
                  /\ lastOp.logs[k].timestamp = Segments(Trimmed(lines[k]))[1]
                  /\ lastOp.logs[k].eventType = Segments(Trimmed(lines[k]))[2]

\* The file holds a line of one segment and then a record whose details contain
\* the delimiter; the read returned that record alone.
SkippedThenParsed ==
    /\ ReadDone
    /\ Len(written) = 2
    /\ written[1].kind = "raw" /\ written[1].details = <<"garbage">>
    /\ written[2].kind = "record"
    /\ Len(Segments(written[2].details)) = 2
    /\ Len(lastOp.logs) = 1
    /\ lastOp.logs[1].eventType = written[2].eventType
    /\ lastOp.logs[1].details = written[2].details

(***************************************************************************)
(* Claims about the life of window instances                               *)
(***************************************************************************)
\* A destroyed instance has no running timer and no hook, and s_instance does
\* not point to it.
TornDown(i) ==
    /\ agents[i].timers = {}
    /\ ~agents[i].hooks
    /\ ~agents[i].idle
    /\ s_instance # i

\* A slot, callback or handler that runs, runs against a live instance or
\* against none.
C28_Step ==
    (lastOp' # lastOp /\ lastOp'.op \in {"timerSlot", "hookCallback"}) =>
        /\ lastOp'.agent # NullInstance => agents[lastOp'.agent].life = "alive"
        /\ \A i \in Instances : agents[i].life = "destroyed" => agents'[i] = agents[i]

\* C28: when the destructor of a window has returned, its screenshot,
\* window-sampling, idle-poll and log-upload timers are stopped and its hooks
\* unregistered, and no timer slot, hook callback or idle-transition handler
\* runs against it afterwards.
C28_DestructorSynchronous ==
    /\ [](\A i \in Instances : agents[i].life = "destroyed" => TornDown(i))
    /\ [][C28_Step]_vars

\* C28 witness: a window whose detector had received activity has been
\* destroyed, and a hook callback of the other, live window ran afterwards,
\* against no instance.
C28_Witness ==
    /\ agents[1].life = "destroyed" /\ agents[1].activity > 0
    /\ agents[2].life = "alive" /\ agents[2].hooks
    /\ lastOp.op = "hookCallback" /\ lastOp.hook = 2
    /\ lastOp.agent = NullInstance

\* C29: while an instance is alive with its hooks installed, a callback of its
\* hooks updates that instance's idle detector, whatever other instances were
\* created or destroyed.
C29_Step ==
    (lastOp' # lastOp /\ lastOp'.op = "hookCallback"
        /\ agents[lastOp'.hook].life = "alive") =>
        agents'[lastOp'.hook].activity = agents[lastOp'.hook].activity + 1

C29_InstancesIndependent == [][C29_Step]_vars

(***************************************************************************)
(* Claims about the detector's queries, threshold and states               *)
(***************************************************************************)
\* C31: getIdleDurationSeconds() is 0 when the detector is not idle, and when
\* it is idle the whole seconds from (lastActivityTime at the check that
\* entered idle + the threshold of that check) to now.
C31_IdleDurationValue ==
    IdleDuration = IF ~m_isCurrentlyIdle THEN 0
                   ELSE SecsTo(AddSecs(m_lastActivityTime, openThreshold), now)

\* C31 witness: the detector entered idle with threshold 1, the threshold was
\* then set to 2, and a second has passed since the interval began.
C31_Witness ==
    /\ m_isCurrentlyIdle
    /\ openThreshold = 1 /\ m_idleThresholdSeconds = 2
    /\ IdleDuration = 1
    /\ now = m_lastActivityTime + 2 * TicksPerSec

\* A check has just run.
Checked == lastOp'.op = "checkIdleState" /\ lastOp' # lastOp

\* C32 as stated: whenever the detector is idle after an idle check, the
\* elapsed time at that check reached the threshold configured at that check.
C32_HeldAtLastCheck ==
    [][(Checked /\ m_isCurrentlyIdle') => lastOp'.elapsed >= lastOp'.threshold]_vars

C32_Step ==
    (Checked /\ ~m_isCurrentlyIdle /\ m_isCurrentlyIdle') =>
        /\ lastOp'.elapsed >= lastOp'.threshold
        /\ openThreshold' = lastOp'.threshold

\* C32 amended: if the detector is idle then, at the idle check that entered
\* the idle state, now - lastActivityTime >= idleThresholdSeconds held for the
\* threshold configured at that check (and still holds for that threshold).
C32_HeldAtEnteringCheck ==
    /\ [](m_isCurrentlyIdle => SecsTo(m_lastActivityTime, now) >= openThreshold)
    /\ [][C32_Step]_vars

\* C32 witness: the detector is idle and the last check, made after the
\* threshold was raised, found less time elapsed than the threshold stored.
C32_Witness ==
    /\ m_isCurrentlyIdle
    /\ lastOp.op = "checkIdleState" /\ lastOp.wasIdle
    /\ lastOp.elapsed < lastOp.threshold
    /\ lastOp.elapsed >= openThreshold

\* The step is a setIdleThresholdSeconds(s) call with s > 0.
ThresholdSet ==
    /\ lastOp'.op = "setIdleThresholdSeconds" /\ lastOp' # lastOp
    /\ lastOp'.seconds > 0

\* The call changes the threshold and nothing else: no state of the interval,
\* no emission made or begun.
C33_Frame ==
    ThresholdSet =>
        /\ m_idleThresholdSeconds' = lastOp'.seconds
        /\ UNCHANGED <<m_isCurrentlyIdle, m_idleStartTime, m_lastActivityTime,
                       timerActive, events, pc, openInterval, openThreshold>>

\* An idleStarted delivered by a check that compared before the call carries
\* the threshold it compared against, not the new value.
C33_UsedByLaterChecksOnly ==
    \A t \in Threads :
        (pc[t].at = "emitStarted" /\ pc'[t] = Ready) =>
            events'[Len(events')].arg = pc[t].threshold

ThresholdFrame == [][C33_Frame]_vars

C35_StoppedNotIdle == ~timerActive => ~m_isCurrentlyIdle

\* C36: every idleStarted delivered carries the threshold its check compared
\* against and computed idleStartTime with.
C36_StartedCarriesCheckedThreshold ==
    [][\A t \in Threads :
          (pc[t].at = "emitStarted" /\ Len(events') = Len(events) + 1) =>
              /\ events'[Len(events')].type = "idleStarted"
              /\ events'[Len(events')].arg = openThreshold
              /\ m_isCurrentlyIdle =>
                    m_idleStartTime =
                        AddSecs(m_lastActivityTime, events'[Len(events')].arg)]_vars


(***************************************************************************)
(* Claims about the upload mutex, overlapping intervals and teardown.      *)
(***************************************************************************)
\* A reply that clears the store: handleActivityResponse() without error.
Clearing == lastOp' # lastOp /\ lastOp'.op = "handleActivityResponse" /\ lastOp'.noError

C34_Step == Clearing => requestCount = lastOp'.rid

\* C34: the read and the clear of one upload cycle are one critical section:
\* when a cycle clears the store, no other cycle has read the store and posted
\* a batch since that cycle's own read.
C34_ReadAndClearInOneScope == [][C34_Step]_vars


\* Time passes while a dialog is up, long enough for the next interval to start.
OverlapAdvance(s) ==
    /\ AllReady /\ Dispatched
    /\ AddSecs(now, s) <= AddSecs(0, MaxOverlapSeconds)
    /\ now' = AddSecs(now, s)
    /\ lastOp' = [op |-> "advance"]
    /\ UNCHANGED <<m_lastActivityTime, m_idleStartTime, m_isCurrentlyIdle,
                   m_idleThresholdSeconds, timerActive, pc, events,
                   intervalCount, openInterval, openThreshold, m_mutex, stack, quiet>>
    /\ UNCHANGED <<upVars, winVars>>
    /\ UNCHANGED auxVars

\* A dialog is up (it is not modal) while the detector goes on: from the dialog
\* of one interval to the start of the next interval.
NextOverlap ==
    \/ \E s \in WindowTimeSteps : OverlapAdvance(s)
    \/ WindowActivity
    \/ WindowTimerPoll
    \/ EmitIdleStarted("ui")
    \/ OnIdleStarted
    \/ \E d \in 1..MaxEvents, text \in ReasonInputs : SetReason(d, text)
    \/ \E d \in 1..MaxEvents : SubmitAnnotation(d)

SpecOverlap == InitDialog /\ [][NextOverlap]_vars

\* A submission that passes isValid(), made after a later interval has started.
SubmittedAfterLaterStart(d) ==
    /\ Submitting
    /\ lastOp'.dialog = d
    /\ Len(idleTimeCalls') = Len(idleTimeCalls) + 1
    /\ intervalCount > dialogs[d].interval

C37_Step ==
    \A d \in 1..Len(dialogs) :
        SubmittedAfterLaterStart(d) =>
            LET dlg == dialogs[d]
                data == idleTimeCalls'[Len(idleTimeCalls')].data
            IN  /\ data.startTime = dlg.m_startTime
                /\ data.durationSeconds = SecsTo(dlg.m_startTime, data.endTime)
                /\ store' = AppendLine(store,
                                AnnotatedLine(nextId,
                                    AnnotationData(dlg.reason, dlg.note, dlg.m_startTime, now)),
                                fileOpenable)

\* C37: submitting the dialog of an interval after a later interval has started
\* gives an annotation (the uploadIdleTime data and the IDLE_ANNOTATED line)
\* with the start time the dialog was created with and the duration counted
\* from it, not those of the later interval.
C37_EarlierDialogKeepsItsInterval == [][C37_Step]_vars


\* ~TimeTrackerMainWindow(): m_idleDetector->stop(), up to its emission.
WindowTeardown == AllReady /\ Dispatched /\ Stop

\* stop() goes on after the handlers connected to idleEnded have returned.
TeardownRelock == Dispatched /\ StopRelock

\* The hooks are installed and the clock matters only while the window lives.
TeardownActivity == timerActive /\ WindowActivity

TeardownAdvance(s) == timerActive /\ Advance(s)

\* The life of a window from its construction to its destructor.
NextTeardown ==
    \/ \E s \in WindowTimeSteps : TeardownAdvance(s)
    \/ TeardownActivity
    \/ WindowTimerPoll
    \/ EmitIdleStarted("ui")
    \/ EmitIdleEnded("ui")
    \/ OnIdleStarted
    \/ OnIdleEnded
    \/ WindowTeardown
    \/ TeardownRelock

SpecTeardown == InitWindow /\ [][NextTeardown]_vars

\* The destructor has called stop(): the window starts its detector in the
\* constructor and stops it nowhere else.
TearingDown == ~timerActive

C38_Step ==
    /\ (lastOp' # lastOp /\ lastOp'.op = "stop" /\ m_isCurrentlyIdle) =>
          /\ ~m_isCurrentlyIdle'
          /\ pc'["ui"].at = "emitEnded"
          /\ pc'["ui"].interval = openInterval
    /\ TearingDown => (dialogs' = dialogs /\ idleTimeCalls' = idleTimeCalls)

\* C38: the destructor's stop() on an idle detector closes the open interval
\* with one idleEnded, and from then on the window being destroyed gets no new
\* IdleAnnotationDialog and no new request.
C38_TeardownOpensNoDialog == [][C38_Step]_vars


(***************************************************************************)
(* The three mutexes. uploadActivityLogs() and captureScreenshot() take a  *)
(* QMutexLocker for the whole call; the detector's calls hold m_mutex for  *)
(* their locked section and emit after unlocking. A call is made by either *)
(* thread; a thread that finds a mutex taken waits for it.                 *)
(***************************************************************************)
\* The thread is in the event loop: inside no call and no handler.
InEventLoop(t) == pc[t] = Ready /\ stack[t] = <<>> /\ inCall[t] = "none"

\* The mutexes a thread holds.
HeldBy(t) ==
    {m \in {"m_mutex", "m_uploadMutex", "m_screenshotMutex"} :
        \/ m = "m_mutex" /\ m_mutex = t
        \/ m = "m_uploadMutex" /\ m_uploadMutex = t
        \/ m = "m_screenshotMutex" /\ m_screenshotMutex = t}

\* The thread is blocked in the constructor of a QMutexLocker.
WaitsForUpload(t) == inCall[t] = "uploadActivityLogs" /\ m_uploadMutex # t

WaitsForScreenshot(t) == inCall[t] = "captureScreenshot" /\ m_screenshotMutex # t

\* The detector is configured and started with a threshold of one second, one
\* key event is in the log, and a second has passed without input.
InitLocks ==
    /\ now = AddSecs(0, 1)
    /\ m_lastActivityTime = 0
    /\ m_idleStartTime = NullTime
    /\ m_isCurrentlyIdle = FALSE
    /\ m_idleThresholdSeconds = 1
    /\ timerActive = TRUE
    /\ pc = [t \in Threads |-> Ready]
    /\ events = <<>>
    /\ intervalCount = 0
    /\ openInterval = 0
    /\ openThreshold = 0
    /\ m_mutex = "free"
    /\ stack = [t \in Threads |-> <<>>]
    /\ quiet = [on |-> TRUE, from |-> 0]
    /\ store \in {AppendLine(file, <<1, "KEY_DOWN", "data">>, TRUE) : file \in InitialStores}
    /\ fileOpenable = TRUE
    /\ nextId = 2
    /\ inflight = {}
    /\ requestCount = 0
    /\ posted = [id \in RecordIds |-> 0]
    /\ delivered = {}
    /\ appended = {1}
    /\ signals = <<>>
    /\ failedBatch = {}
    /\ normal = TRUE
    /\ win_idleStartTime = NullTime
    /\ handled = 0
    /\ dialogs = <<>>
    /\ idleTimeCalls = <<>>
    /\ InitAux
    /\ lastOp = [op |-> "init"]

\* A thread enters a slot that begins with a QMutexLocker.
EnterSlot(t, slot) ==
    /\ InEventLoop(t)
    /\ lockCalls < MaxLockCalls
    /\ inCall' = [inCall EXCEPT ![t] = slot]
    /\ lockCalls' = lockCalls + 1
    /\ lastOp' = [op |-> "enter", slot |-> slot, thread |-> t]
    /\ UNCHANGED <<m_uploadMutex, m_screenshotMutex>>
    /\ UNCHANGED <<trackVars, shotVars, textVars, agentVars>>
    /\ UNCHANGED <<detVars, upVars, winVars>>

\* uploadActivityLogs() is called.
UploadCall(t) == requestCount < MaxRequests /\ EnterSlot(t, "uploadActivityLogs")

\* QMutexLocker locker(&m_uploadMutex)
UploadLock(t) ==
    /\ WaitsForUpload(t)
    /\ m_uploadMutex = "free"
    /\ m_uploadMutex' = t
    /\ lastOp' = [op |-> "lock", slot |-> "uploadActivityLogs", thread |-> t]
    /\ UNCHANGED <<m_screenshotMutex, inCall, lockCalls>>
    /\ UNCHANGED <<trackVars, shotVars, textVars, agentVars>>
    /\ UNCHANGED <<detVars, upVars, winVars>>

\* The rest of uploadActivityLogs(): the read, the post, the return.
UploadReturn(t) ==
    /\ inCall[t] = "uploadActivityLogs"
    /\ m_uploadMutex = t
    /\ UploadActivityLogsBody
    /\ m_uploadMutex' = ReleaseOnReturn(t)
    /\ inCall' = [inCall EXCEPT ![t] = "none"]
    /\ UNCHANGED <<m_screenshotMutex, lockCalls>>
    /\ UNCHANGED <<trackVars, shotVars, textVars, agentVars>>
    /\ UNCHANGED <<detVars, winVars>>

\* captureScreenshot() is called.
CaptureCall(t) ==
    /\ ShotCalls < MaxShotCalls
    /\ Cardinality({path \in Paths : IsFresh(path)})
          > Cardinality({u \in Threads : inCall[u] = "captureScreenshot"})
    /\ EnterSlot(t, "captureScreenshot")

\* QMutexLocker locker(&m_screenshotMutex)
CaptureLock(t) ==
    /\ WaitsForScreenshot(t)
    /\ m_screenshotMutex = "free"
    /\ m_screenshotMutex' = t
    /\ lastOp' = [op |-> "lock", slot |-> "captureScreenshot", thread |-> t]
    /\ UNCHANGED <<m_uploadMutex, inCall, lockCalls>>
    /\ UNCHANGED <<trackVars, shotVars, textVars, agentVars>>
    /\ UNCHANGED <<detVars, upVars, winVars>>

\* The rest of captureScreenshot(): the grab, the save, uploadScreenshot() (which
\* takes no mutex), the return.
CaptureReturn(t, path, saved) ==
    /\ inCall[t] = "captureScreenshot"
    /\ m_screenshotMutex = t
    /\ CaptureScreenshotBody(path, saved)
    /\ m_screenshotMutex' = ReleaseOnReturn(t)
    /\ inCall' = [inCall EXCEPT ![t] = "none"]
    /\ UNCHANGED <<m_uploadMutex, lockCalls>>
    /\ UNCHANGED <<trackVars, textVars, agentVars>>
    /\ UNCHANGED <<detVars, upVars, winVars>>

\* The replies are handled in the event loop; their handlers take no mutex.
ActivityReplyInLoop ==
    InEventLoop("ui") /\ \E req \in inflight, noError \in BOOLEAN :
                              HandleActivityResponse(req, noError)

ScreenshotReplyInLoop ==
    InEventLoop("ui") /\ \E req \in shotInflight, noError \in BOOLEAN :
                              HandleScreenshotResponse(req, noError)

\* The detector's calls, made by a thread that is inside no slot.
StopInLoop == inCall["ui"] = "none" /\ Stop

TimerPollInLoop == inCall["ui"] = "none" /\ TimerPoll

ActivityInLoop(t) == inCall[t] = "none" /\ UpdateLastActivityTime(t)

NextLocks ==
    \/ \E t \in Threads : UploadCall(t)
    \/ \E t \in Threads : UploadLock(t)
    \/ \E t \in Threads : UploadReturn(t)
    \/ \E t \in Threads : CaptureCall(t)
    \/ \E t \in Threads : CaptureLock(t)
    \/ \E t \in Threads, path \in Paths, saved \in BOOLEAN : CaptureReturn(t, path, saved)
    \/ ActivityReplyInLoop
    \/ ScreenshotReplyInLoop
    \/ StopInLoop
    \/ TimerPollInLoop
    \/ \E t \in Threads : ActivityInLoop(t)
    \/ DetectorStep
    \/ OnIdleStarted
    \/ OnIdleEnded

SpecLocks == InitLocks /\ [][NextLocks]_vars

\* A thread that can run does run: the threads are scheduled by the operating
\* system, and a call that has its mutex, or finds it free, goes on.
ThreadsRun ==
    /\ \A t \in Threads :
          /\ WF_vars(UploadLock(t))
          /\ WF_vars(UploadReturn(t))
          /\ WF_vars(CaptureLock(t))
          /\ WF_vars(\E path \in Paths, saved \in BOOLEAN : CaptureReturn(t, path, saved))
          /\ WF_vars(EmitIdleStarted(t))
          /\ WF_vars(EmitIdleEnded(t))
    /\ WF_vars(StopRelock)

SpecLocksFair == SpecLocks /\ ThreadsRun

\* No thread is left inside a call of the detector or of a locked slot.
AllReturned == \A t \in Threads : InEventLoop(t)

\* Whoever holds a mutex can go on without taking another one.
HolderCanGoOn ==
    \A t \in Threads :
        /\ m_uploadMutex = t => ENABLED UploadReturn(t)
        /\ m_screenshotMutex = t =>
              ENABLED (\E path \in Paths, saved \in BOOLEAN : CaptureReturn(t, path, saved))
        /\ m_mutex # t

\* A thread waits for a mutex while holding none, and is back in the event
\* loop holding none.
C39_Safe ==
    /\ \A t \in Threads : InEventLoop(t) => HeldBy(t) = {}
    /\ \A t \in Threads :
          (WaitsForUpload(t) \/ WaitsForScreenshot(t)
              \/ pc[t].at \in {"emitStarted", "emitEnded", "stopRelock"})
            => HeldBy(t) = {}
    /\ HolderCanGoOn

\* C39: no interleaving of the timer slots, the hook callbacks, the replies and
\* the signal handlers deadlocks: a thread holds at most the mutex of the call
\* it is in and takes no other while it holds it, has released it when the
\* call has returned, and every thread that waits for a mutex, or is inside a
\* call, gets on and returns.
C39_NoDeadlock ==
    /\ []C39_Safe
    /\ \A t \in Threads :
          /\ WaitsForUpload(t) ~> m_uploadMutex = t
          /\ WaitsForScreenshot(t) ~> m_screenshotMutex = t
          /\ ~InEventLoop(t) ~> InEventLoop(t)

\* C39 witness: one thread waits for the upload mutex the other thread holds,
\* after the detector has gone idle and an idleStarted has been handled.
C39_Witness ==
    \E t, u \in Threads :
        /\ WaitsForUpload(t)
        /\ m_uploadMutex = u
        /\ u # t
        /\ m_isCurrentlyIdle
        /\ handled = 1

==========================================================================
